---- MODULE Spec2Model ----
(***************************************************************************)
(* A model of the research orchestration core of KResearch:                *)
(*   - the Execution Layer, executeWithRetry       (services/geminiClient) *)
(*   - the Citation Registry, CitationManager      (services/geminiClient) *)
(*   - the Negotiation Engine, generateAcademicOutline  (services/search)  *)
(* Each component has its own specification (SpecExec, SpecCite, SpecMark, *)
(* SpecOutline) over a common set of variables; the variables of the other *)
(* components stay at their initial values.                                *)
(***************************************************************************)
EXTENDS Integers, Sequences, FiniteSets, TLC

\* ------------------------------------------------------------------------
\* State
\* ------------------------------------------------------------------------
\* Execution Layer
VARIABLES
    keys,          \* apiKeyService.getApiKeys().length
    keyIndex,      \* the pool's rotation cursor
    pc,            \* "idle" | "fetching" | "backoff" | "done"
    attempt,       \* the loop variable `attempt`
    requests,      \* fetch calls issued by this call
    lastError,     \* the class of `lastError` ("none" for null)
    aborted,       \* userSignal.aborted
    hasSignal,     \* whether a userSignal was passed
    outcome,       \* how the call ended
    finalError,    \* the error the aggregate message names
    resultText,    \* sdkLikeResponse.text of a returned response
    delayMs,       \* the delay of the backoff sleep in progress
    recorded429,   \* calls of apiIntervalManager.record429Error
    failClasses,   \* history: classes of the attempts that failed
    abortInFlight, \* history: the signal fired while an attempt was in flight
    requestsAtAbort,   \* history: `requests` when the signal fired
    sentAfterAbort,    \* history: requests sent with the signal already set
    lastReply,         \* history: the reply of the attempt that failed last
    lastJitter,        \* history: Math.random() * 1000 of its catch block
    keysDrawn,         \* history: the credentials this call's attempts drew
    otherDrawn         \* history: the credentials another call's attempts drew

execVars == <<keys, keyIndex, pc, attempt, requests, lastError, aborted,
              hasSignal, outcome, finalError, resultText, delayMs,
              recorded429, failClasses, abortInFlight, requestsAtAbort,
              sentAfterAbort, lastReply, lastJitter, keysDrawn,
              otherDrawn>>

\* Citation Registry
VARIABLES
    citations,        \* the Map's values in insertion order: [key, id, timesCited]
    citationCounter,  \* the next id
    lastCall,         \* the last call made on the registry: [op, ids, ret, mark]
    firstSeen,        \* history: the keys added since construction or clear(),
                      \* each once, in the order they were first seen
    usedIds,          \* history: the ids usage was recorded for since then
    prevCitations,    \* history: `citations` before the last call
    argIds,           \* the id list a mark is asked for (SpecMark)
    nOps              \* calls made so far

citeVars == <<citations, citationCounter, lastCall, firstSeen, usedIds,
              prevCitations, argIds, nOps>>

\* Negotiation Engine
VARIABLES
    maxDebateRounds,      \* researchParams.maxDebateRounds
    debateTurns,          \* the counter `debateTurns`
    nextPersona,          \* "Alpha" | "Beta"
    currentConversation,  \* the turns accepted: [persona, thought]
    oPc,                  \* "idle" | "awaiting" | "retryWait" | "fallback" | "done"
    turnAttempt,          \* the loop variable `turnAttempt`
    retryDelay,           \* the delay of the retry sleep in progress
    turnCalls,            \* generateContent calls issued for turns
    fallbackCalls,        \* generateContent calls issued for the final outline
    observed,             \* the updates onDebateUpdate was called with
    hasObserver,          \* whether onDebateUpdate was passed
    oHasSignal,           \* whether a signal was passed
    oAborted,             \* signal.aborted
    oOutcome,             \* how the call ended
    oResult,              \* the outline returned
    finalResponse,        \* finalResponse.text of the final call (<<>> before it returns)
    turnLog               \* history: the turns issued: [persona, accepted, action, artifact]

outlineVars == <<maxDebateRounds, debateTurns, nextPersona,
                 currentConversation, oPc, turnAttempt, retryDelay,
                 turnCalls, fallbackCalls, observed, hasObserver, oHasSignal,
                 oAborted, oOutcome, oResult, finalResponse, turnLog>>

\* Rate-Adaptation Tracker
VARIABLES
    errorHistory,   \* ApiIntervalManager.errorHistory: timestamps (ms)
    now,            \* Date.now(), in ms since the manager was constructed
    lastDelay,      \* the last calculateDelay call: [mode, config, result, recent]
    allRecorded,    \* history: every timestamp recorded since construction
                    \* or clearErrorHistory(), in recording order
    nRecorded,      \* calls of record429Error so far
    nTicks          \* advances of the clock so far

intervalVars == <<errorHistory, now, lastDelay, allRecorded, nRecorded, nTicks>>

\* Synthesis Driver
VARIABLES
    academicOutline,    \* the academicOutline argument of synthesizeReport
    sPc,                \* "idle", "generating" (a chapter request is awaited),
                        \* "sleeping" (the 1500 ms pause), "whole" (the
                        \* whole-document request is awaited), "done"
    chapters,           \* the chapters the outline was split into
    chapterIdx,         \* the index of the chapter of the for..of loop
    generatedChapters,  \* generatedChapters: the chunks pushed so far
    synthRequests,      \* history: the chapter outlines requests were made for
    sInFlight,          \* generation requests issued and not yet settled
    wholeRequests,      \* whole-document requests issued
    sHasSignal,         \* a signal was passed
    sAborted,           \* signal.aborted
    sOutcome,           \* "" | "ok" | "AbortError" | "AllKeysFailedError" | "Error"
    report,             \* reports[0].content of the value returned
    validations,        \* history: the validations of returned texts, each
                        \* [chapter, cites, known, isValid, warned]
    sessionCitations    \* history: the registry as this call filled it

synthVars == <<academicOutline, sPc, chapters, chapterIdx, generatedChapters,
               synthRequests, sInFlight, wholeRequests, sHasSignal, sAborted,
               sOutcome, report, validations, sessionCitations>>

\* Search Strategy
VARIABLES
    strategyConfig, \* SearchStrategy.config
    strategyCall,   \* the last generateSearchStrategy call: its arguments,
                    \* the maxQueriesPerSearch in force and the value returned
    configUpdated,  \* updateConfig has been called
    nStrategyOps    \* calls made on the strategy so far

strategyVars == <<strategyConfig, strategyCall, configUpdated, nStrategyOps>>

vars == <<execVars, citeVars, outlineVars, intervalVars, synthVars,
          strategyVars>>

\* ------------------------------------------------------------------------
\* Bounds of the model
\* ------------------------------------------------------------------------
MaxKeys == 2

\* ------------------------------------------------------------------------
\* Text: a string is a sequence of one-character strings
\* ------------------------------------------------------------------------
\* String.prototype.toLowerCase, on the alphabet the model uses
LowerChar(c) ==
    CASE c = "A" -> "a"
      [] c = "E" -> "e"
      [] c = "X" -> "x"
      [] OTHER   -> c

toLowerCase(s) == [i \in DOMAIN s |-> LowerChar(s[i])]

IsSpace(c) == c \in {" ", "\n"}

RECURSIVE trimStart(_)
trimStart(s) ==
    IF s # <<>> /\ IsSpace(Head(s)) THEN trimStart(Tail(s)) ELSE s

RECURSIVE trimEnd(_)
trimEnd(s) ==
    IF s # <<>> /\ IsSpace(s[Len(s)]) THEN trimEnd(SubSeq(s, 1, Len(s) - 1)) ELSE s

\* String.prototype.trim
trim(s) == trimEnd(trimStart(s))

\* ========================================================================
\* Execution Layer: executeWithRetry
\* ========================================================================

maxRetriesPerKeyCycle == 2

maxAttempts_OffByOne(k) == k * maxRetriesPerKeyCycle + 1

maxAttempts(k) == k * maxRetriesPerKeyCycle

\* Credential Pool next(): the credential at the cursor; the cursor advances
\* round-robin.  Credentials are numbered 1..keys (never falsy).
getNextApiKey(cursor, k) == [key |-> cursor + 1, cursor |-> (cursor + 1) % k]

\* The replies one fetch can end in.
StatusCodes == {200, 400, 429, 503}
Texts == { <<>>, <<" ">>, <<"o", "k">>, <<" ", "o", "k">> }
RetrySeconds == {1, 30}
Jitters == {0, 999}

NoReply == [kind |-> "none", msg |-> "", status |-> 0, json |-> FALSE,
            text |-> <<>>, retryKind |-> "absent", retrySeconds |-> 0]

Replies ==
    \* fetch rejects: the network failed
    { [NoReply EXCEPT !.kind = "net", !.msg = m] :
        m \in {"Failed to fetch", "Load failed"} }
    \* a reply whose body is not JSON
    \cup { [NoReply EXCEPT !.kind = "http", !.status = s] : s \in StatusCodes }
    \* an error reply with a JSON body
    \cup { [NoReply EXCEPT !.kind = "http", !.status = s, !.json = TRUE] :
            s \in {400, 503} }
    \* a rate-limit reply, with or without RetryInfo
    \cup { [NoReply EXCEPT !.kind = "http", !.status = 429, !.json = TRUE,
                           !.retryKind = r] :
            r \in {"absent", "no_digits", "not_a_string"} }
    \cup { [NoReply EXCEPT !.kind = "http", !.status = 429, !.json = TRUE,
                           !.retryKind = "seconds", !.retrySeconds = n] :
            n \in RetrySeconds }
    \* a well-formed reply
    \cup { [NoReply EXCEPT !.kind = "http", !.status = 200, !.json = TRUE,
                           !.text = t] : t \in Texts }

ResponseOk(r) == r.status >= 200 /\ r.status <= 299

\* The try block: what a settled fetch makes of its reply.
\* "return" or the message of the Error thrown.
TryBlock_AcceptsEmpty(r) ==
    IF r.kind = "net" THEN r.msg
    ELSE IF ~ResponseOk(r) THEN "API Error"
    ELSE IF ~r.json THEN "Failed to parse JSON response"
    ELSE "return"

TryBlock(r) ==
    IF r.kind = "net" THEN r.msg
    ELSE IF ~ResponseOk(r) THEN "API Error"
    ELSE IF ~r.json THEN "Failed to parse JSON response"
    ELSE IF r.text = <<>> \/ trim(r.text) = <<>> THEN "Empty response from API"
    ELSE "return"

\* error.status of the Error thrown (0: undefined)
ErrorStatus(r) == IF r.kind = "http" /\ ~ResponseOk(r) THEN r.status ELSE 0

isServerError(status) == status >= 500 /\ status < 600
isRateLimit(status) == status = 429

\* The classes of section 3 of the design.
Classify(status, message) ==
    IF isServerError(status) THEN "server_error"
    ELSE IF isRateLimit(status) THEN "rate_limited"
    ELSE IF message = "Failed to fetch" THEN "network_error"
    ELSE IF message = "Empty response from API" THEN "empty_response"
    ELSE IF message = "Failed to parse JSON response" THEN "malformed_response"
    ELSE "other"

\* The condition of the backoff branch.
Backs(status, message) ==
    \/ isServerError(status)
    \/ isRateLimit(status)
    \/ message = "Failed to fetch"
    \/ message = "Empty response from API"
    \/ message = "Failed to parse JSON response"

\* delayMs of the backoff branch, for the failed attempt a.
BackoffDelay_NoExponent(a, r, jitter) ==
    LET baseDelay == IF isServerError(ErrorStatus(r)) THEN 5000 ELSE 3000
    IN  IF isRateLimit(ErrorStatus(r)) /\ r.retryKind = "seconds"
        THEN r.retrySeconds * 1000 + 500
        ELSE baseDelay + jitter

BackoffDelay_IgnoresRetryInfo(a, r, jitter) ==
    LET retriesOnThisKey == (a - 1) % maxRetriesPerKeyCycle
        baseDelay == IF isServerError(ErrorStatus(r)) THEN 5000 ELSE 3000
    IN  baseDelay * (2 ^ retriesOnThisKey) + jitter

BackoffDelay(a, r, jitter) ==
    LET retriesOnThisKey == (a - 1) % maxRetriesPerKeyCycle
        baseDelay == IF isServerError(ErrorStatus(r)) THEN 5000 ELSE 3000
        computed == baseDelay * (2 ^ retriesOnThisKey) + jitter
    IN  IF isRateLimit(ErrorStatus(r)) /\ r.retryKind = "seconds"
        THEN r.retrySeconds * 1000 + 500
        ELSE computed

\* What the catch block does with an AbortError.
OnAbortError_Swallow(userAborted) == "retry"

OnAbortError(userAborted) == IF userAborted THEN "throw" ELSE "retry"

InitExec ==
    /\ keys \in 0..MaxKeys
    /\ keyIndex = 0
    /\ pc = "idle"
    /\ attempt = 0
    /\ requests = 0
    /\ lastError = "none"
    /\ aborted = FALSE
    /\ hasSignal = FALSE
    /\ outcome = "none"
    /\ finalError = "none"
    /\ resultText = <<>>
    /\ delayMs = 0
    /\ recorded429 = 0
    /\ failClasses = {}
    /\ abortInFlight = FALSE
    /\ requestsAtAbort = 0
    /\ sentAfterAbort = 0
    /\ lastReply = NoReply
    /\ lastJitter = 0
    /\ keysDrawn = <<>>
    /\ otherDrawn = <<>>

\* The head of the loop for attempt a, lastError being err: either the
\* budget is spent and AllKeysFailedError is thrown, or the next credential
\* is drawn and the request is sent.
LoopHead(a, err, isAborted) ==
    IF a > maxAttempts(keys)
    THEN /\ pc' = "done"
         /\ outcome' = "exhausted"
         /\ finalError' = err
         /\ UNCHANGED <<attempt, requests, keyIndex, keysDrawn, otherDrawn, sentAfterAbort>>
    ELSE /\ pc' = "fetching"
         /\ attempt' = a
         /\ requests' = requests + 1
         /\ keyIndex' = getNextApiKey(keyIndex, keys).cursor
         /\ keysDrawn' = Append(keysDrawn, getNextApiKey(keyIndex, keys).key)
         /\ UNCHANGED otherDrawn
         /\ sentAfterAbort' = sentAfterAbort + (IF isAborted THEN 1 ELSE 0)
         /\ UNCHANGED <<outcome, finalError>>

\* executeWithRetry is called, with a signal that has not fired (the callers
\* check theirs right before the call): the precondition checks, then the
\* first attempt is sent (no await in between).
Call(modelName, signal) ==
    /\ pc = "idle"
    /\ hasSignal' = signal
    /\ aborted' = FALSE
    /\ IF keys = 0
       THEN /\ pc' = "done"
            /\ outcome' = "no_keys"
            /\ UNCHANGED <<attempt, requests, keyIndex, keysDrawn, otherDrawn, finalError, sentAfterAbort>>
       ELSE IF ~modelName
       THEN /\ pc' = "done"
            /\ outcome' = "invalid_args"
            /\ UNCHANGED <<attempt, requests, keyIndex, keysDrawn, otherDrawn, finalError, sentAfterAbort>>
       ELSE LoopHead(1, "none", FALSE)
    /\ UNCHANGED <<keys, lastError, resultText, delayMs, recorded429,
                   failClasses, abortInFlight, requestsAtAbort>>
    /\ UNCHANGED <<lastReply, lastJitter>>
    /\ UNCHANGED <<citeVars, outlineVars, intervalVars, synthVars, strategyVars>>

\* The fetch settles with reply r and the try block returns.
AttemptSucceeds(r) ==
    /\ pc = "fetching"
    /\ TryBlock(r) = "return"
    /\ pc' = "done"
    /\ outcome' = "success"
    /\ resultText' = r.text
    /\ UNCHANGED <<keys, keyIndex, keysDrawn, otherDrawn, attempt, requests, lastError, aborted,
                   hasSignal, finalError, delayMs, recorded429, failClasses,
                   abortInFlight, requestsAtAbort, sentAfterAbort>>
    /\ UNCHANGED <<lastReply, lastJitter>>
    /\ UNCHANGED <<citeVars, outlineVars, intervalVars, synthVars, strategyVars>>

\* The fetch settles with reply r and the try block throws: the catch block.
AttemptFails(r, jitter) ==
    /\ pc = "fetching"
    /\ TryBlock(r) # "return"
    /\ LET status == ErrorStatus(r)
           message == TryBlock(r)
           class == Classify(status, message)
       IN  /\ lastError' = class
           /\ lastReply' = r
           /\ lastJitter' = jitter
           /\ failClasses' = failClasses \cup {class}
           /\ recorded429' = recorded429 + (IF isRateLimit(status) THEN 1 ELSE 0)
           /\ IF Backs(status, message)
              THEN IF isRateLimit(status) /\ r.retryKind = "not_a_string"
                   THEN \* retryInfo.retryDelay.match is not a function
                        /\ pc' = "done"
                        /\ outcome' = "type_error"
                        /\ UNCHANGED <<attempt, requests, keyIndex, keysDrawn, otherDrawn, finalError,
                                       sentAfterAbort, delayMs>>
                   ELSE /\ pc' = "backoff"
                        /\ delayMs' = BackoffDelay(attempt, r, jitter)
                        /\ UNCHANGED <<attempt, requests, keyIndex, keysDrawn, otherDrawn, outcome,
                                       finalError, sentAfterAbort>>
              ELSE /\ LoopHead(attempt + 1, class, aborted)
                   /\ UNCHANGED delayMs
    /\ UNCHANGED <<keys, aborted, hasSignal, resultText, abortInFlight,
                   requestsAtAbort>>
    /\ UNCHANGED <<citeVars, outlineVars, intervalVars, synthVars, strategyVars>>

\* The request timeout fires first: the fetch rejects with an AbortError.
AttemptTimesOut ==
    /\ pc = "fetching"
    /\ failClasses' = failClasses \cup {"timeout"}
    /\ IF OnAbortError(aborted) = "throw"
       THEN /\ pc' = "done"
            /\ outcome' = "cancelled"
            /\ UNCHANGED <<attempt, requests, keyIndex, keysDrawn, otherDrawn, finalError,
                           sentAfterAbort, lastError>>
       ELSE /\ lastError' = "timeout"
            /\ LoopHead(attempt + 1, "timeout", aborted)
    /\ UNCHANGED <<keys, aborted, hasSignal, resultText, delayMs, recorded429,
                   abortInFlight, requestsAtAbort>>
    /\ UNCHANGED <<lastReply, lastJitter>>
    /\ UNCHANGED <<citeVars, outlineVars, intervalVars, synthVars, strategyVars>>

\* The caller's signal fires while the attempt is in flight: onAbort aborts
\* the combined signal, the fetch rejects with an AbortError, the catch
\* block runs.
UserAbortsInFlight ==
    /\ pc = "fetching"
    /\ hasSignal
    /\ ~aborted
    /\ aborted' = TRUE
    /\ abortInFlight' = TRUE
    /\ requestsAtAbort' = requests
    /\ failClasses' = failClasses \cup {"user_cancelled"}
    /\ IF OnAbortError(TRUE) = "throw"
       THEN /\ pc' = "done"
            /\ outcome' = "cancelled"
            /\ UNCHANGED <<attempt, requests, keyIndex, keysDrawn, otherDrawn, finalError,
                           sentAfterAbort, lastError>>
       ELSE /\ lastError' = "user_cancelled"
            /\ LoopHead(attempt + 1, "user_cancelled", TRUE)
    /\ UNCHANGED <<keys, hasSignal, resultText, delayMs, recorded429>>
    /\ UNCHANGED <<lastReply, lastJitter>>
    /\ UNCHANGED <<citeVars, outlineVars, intervalVars, synthVars, strategyVars>>

\* The caller's signal fires during a backoff sleep: no listener of the
\* attempt to come is attached yet.
UserAbortsInBackoff ==
    /\ pc = "backoff"
    /\ hasSignal
    /\ ~aborted
    /\ aborted' = TRUE
    /\ UNCHANGED <<keys, keyIndex, keysDrawn, otherDrawn, pc, attempt, requests, lastError,
                   hasSignal, outcome, finalError, resultText, delayMs,
                   recorded429, failClasses, abortInFlight, requestsAtAbort,
                   sentAfterAbort>>
    /\ UNCHANGED <<lastReply, lastJitter>>
    /\ UNCHANGED <<citeVars, outlineVars, intervalVars, synthVars, strategyVars>>

\* The backoff sleep ends: the next iteration of the loop.
BackoffEnds ==
    /\ pc = "backoff"
    /\ LoopHead(attempt + 1, lastError, aborted)
    /\ delayMs' = 0
    /\ UNCHANGED <<keys, lastError, aborted, hasSignal, resultText,
                   recorded429, failClasses, abortInFlight, requestsAtAbort>>
    /\ UNCHANGED <<lastReply, lastJitter>>
    /\ UNCHANGED <<citeVars, outlineVars, intervalVars, synthVars, strategyVars>>

\* Another call of executeWithRetry, running between this call's awaits,
\* reaches the head of its loop: it draws the next credential of the same
\* pool (at most maxAttempts times).
OtherRequestDraws ==
    /\ keys > 0
    /\ Len(otherDrawn) < maxAttempts(keys)
    /\ keyIndex' = getNextApiKey(keyIndex, keys).cursor
    /\ otherDrawn' = Append(otherDrawn, getNextApiKey(keyIndex, keys).key)
    /\ UNCHANGED <<keys, pc, attempt, requests, lastError, aborted, hasSignal,
                   outcome, finalError, resultText, delayMs, recorded429,
                   failClasses, abortInFlight, requestsAtAbort,
                   sentAfterAbort, lastReply, lastJitter, keysDrawn>>
    /\ UNCHANGED <<citeVars, outlineVars, intervalVars, synthVars, strategyVars>>

\* ========================================================================
\* Citation Registry: CitationManager
\* ========================================================================

MaxOps == 4
MaxLen == 4
MaxId == 7

\* The URLs citations are added with.  A URL the parser accepts has a
\* scheme; one it rejects (new URL throws) is kept as the raw string.
NoUrl == [wellFormed |-> TRUE, lead |-> <<>>, protocol |-> <<"https:">>,
          hostname |-> <<"e", "xample.com">>, pathname |-> <<"/a">>,
          search |-> <<>>, hash |-> <<>>]

Urls ==
    { [NoUrl EXCEPT !.hostname = <<"E", "xample.com">>, !.search = <<"?x=1">>],
      [NoUrl EXCEPT !.hash = <<"#top">>],
      [NoUrl EXCEPT !.pathname = <<"/b">>],
      [NoUrl EXCEPT !.pathname = <<>>],
      [NoUrl EXCEPT !.wellFormed = FALSE, !.protocol = <<>>, !.lead = <<" ">>,
                    !.hostname = <<"E", "xample.com">>],
      [NoUrl EXCEPT !.wellFormed = FALSE, !.protocol = <<>>],
      [NoUrl EXCEPT !.wellFormed = FALSE, !.protocol = <<>>,
                    !.search = <<"?x=1">>] }

\* The string a URL record stands for.
Raw(u) ==
    u.lead \o u.protocol \o (IF u.wellFormed THEN <<"//">> ELSE <<>>)
           \o u.hostname \o u.pathname \o u.search \o u.hash

\* new URL(url), for a URL the parser accepts: scheme and host in lower
\* case, an empty path read as "/".
ParseURL(u) ==
    [protocol |-> toLowerCase(u.protocol),
     hostname |-> toLowerCase(u.hostname),
     pathname |-> IF u.pathname = <<>> THEN <<"/">> ELSE u.pathname,
     search   |-> u.search,
     hash     |-> u.hash]

normalizeUrl_KeepsQuery(u) ==
    IF u.wellFormed
    THEN LET urlObj == ParseURL(u)
         IN  urlObj.protocol \o <<"//">> \o toLowerCase(urlObj.hostname)
                \o urlObj.pathname \o urlObj.search
    ELSE trim(toLowerCase(Raw(u)))

normalizeUrl(u) ==
    IF u.wellFormed
    THEN LET urlObj == ParseURL(u)
         IN  urlObj.protocol \o <<"//">> \o toLowerCase(urlObj.hostname)
                \o urlObj.pathname
    ELSE trim(toLowerCase(Raw(u)))

getCitationKey(u) == normalizeUrl(u)

Range(f) == { f[i] : i \in DOMAIN f }

HasKey(cits, key) == \E i \in DOMAIN cits : cits[i].key = key

GetByKey(cits, key) == cits[CHOOSE i \in DOMAIN cits : cits[i].key = key]

\* addCitation: the registry after the call and the id returned.
addCitation_NoDedup(cits, counter, u) ==
    LET key == getCitationKey(u)
    IN  [citations |-> Append(cits, [key |-> key, id |-> counter, timesCited |-> 0]),
         counter |-> counter + 1,
         ret |-> counter]

addCitation_ResetsUsage(cits, counter, u) ==
    LET key == getCitationKey(u)
    IN  IF HasKey(cits, key)
        THEN [citations |-> [i \in DOMAIN cits |->
                                IF cits[i].key = key
                                THEN [cits[i] EXCEPT !.timesCited = 0]
                                ELSE cits[i]],
              counter |-> counter,
              ret |-> GetByKey(cits, key).id]
        ELSE [citations |-> Append(cits, [key |-> key, id |-> counter,
                                          timesCited |-> 0]),
              counter |-> counter + 1,
              ret |-> counter]

addCitation(cits, counter, u) ==
    LET key == getCitationKey(u)
    IN  IF HasKey(cits, key)
        THEN [citations |-> cits, counter |-> counter,
              ret |-> GetByKey(cits, key).id]
        ELSE [citations |-> Append(cits, [key |-> key, id |-> counter,
                                          timesCited |-> 0]),
              counter |-> counter + 1,
              ret |-> counter]

\* getCitationById: the index of the first value with that id, 0 if none.
getCitationById(cits, id) ==
    IF \E i \in DOMAIN cits : cits[i].id = id
    THEN CHOOSE i \in DOMAIN cits :
            /\ cits[i].id = id
            /\ \A j \in DOMAIN cits : cits[j].id = id => i <= j
    ELSE 0

RECURSIVE recordCitationUsage_Distinct(_, _)
recordCitationUsage_Distinct(cits, ids) ==
    IF ids = <<>> THEN cits
    ELSE LET i == getCitationById(cits, Head(ids))
             rest == SelectSeq(Tail(ids), LAMBDA x : x # Head(ids))
         IN  recordCitationUsage_Distinct(
                IF i = 0 THEN cits
                ELSE [cits EXCEPT ![i].timesCited = cits[i].timesCited + 1],
                rest)

RECURSIVE recordCitationUsage(_, _)
recordCitationUsage(cits, ids) ==
    IF ids = <<>> THEN cits
    ELSE LET i == getCitationById(cits, Head(ids))
         IN  recordCitationUsage(
                IF i = 0 THEN cits
                ELSE [cits EXCEPT ![i].timesCited = cits[i].timesCited + 1],
                Tail(ids))

\* Array.prototype.sort with a comparator on a numeric key (a stable
\* sort): key[i] is the key of s[i], and each element goes to the place
\* its rank gives it.
SortBy(s, key) ==
    LET rank(i) == 1 + Cardinality({ j \in DOMAIN s :
                        \/ key[j] < key[i]
                        \/ (key[j] = key[i] /\ j < i) })
    IN  IF s = <<>> THEN <<>>
        ELSE [p \in 1..Len(s) |-> s[CHOOSE i \in DOMAIN s : rank(i) = p]]

\* [...citationIds].sort((a, b) => a - b)
sortedIds_Unsorted(ids) == ids

sortedIds(ids) == SortBy(ids, ids)

\* The loop that merges runs of consecutive ids: the ranges pushed.
RECURSIVE MergeLoop(_, _, _, _, _)
MergeLoop(sorted, i, start, end, ranges) ==
    IF i > Len(sorted)
    THEN Append(ranges, <<start, end>>)
    ELSE IF sorted[i] = end + 1
    THEN MergeLoop(sorted, i + 1, start, sorted[i], ranges)
    ELSE MergeLoop(sorted, i + 1, sorted[i], sorted[i],
                   Append(ranges, <<start, end>>))

\* The ranges of generateMultipleInTextCitations, for two ids or more.
Ranges(ids) ==
    LET sorted == sortedIds(ids)
    IN  MergeLoop(sorted, 2, sorted[1], sorted[1], <<>>)

RangeText(r) ==
    IF r[1] = r[2] THEN ToString(r[1])
    ELSE ToString(r[1]) \o "-" \o ToString(r[2])

\* ranges.join(', ')
RECURSIVE Join(_)
Join(rs) ==
    IF rs = <<>> THEN ""
    ELSE IF Len(rs) = 1 THEN RangeText(rs[1])
    ELSE RangeText(rs[1]) \o ", " \o Join(Tail(rs))

\* The string generateMultipleInTextCitations returns.
generateMultipleInTextCitations(ids) ==
    IF Len(ids) = 0 THEN ""
    ELSE IF Len(ids) = 1 THEN "[" \o ToString(ids[1]) \o "]"
    ELSE "[" \o Join(Ranges(ids)) \o "]"

\* The items of the mark returned, as <<first, last>> pairs.
MarkItems(ids) ==
    IF Len(ids) = 0 THEN <<>>
    ELSE IF Len(ids) = 1 THEN << <<ids[1], ids[1]>> >>
    ELSE Ranges(ids)

\* The decimal digits, as characters.
DigitChars == <<"0", "1", "2", "3", "4", "5", "6", "7", "8", "9">>

\* `${n}` for a non-negative integer: its decimal digits.
RECURSIVE NumberChars(_)
NumberChars(n) ==
    IF n < 10 THEN << DigitChars[n + 1] >>
    ELSE NumberChars(n \div 10) \o << DigitChars[(n % 10) + 1] >>

\* The string generateMultipleInTextCitations returns, character by
\* character: each range as `${start}` or `${start}-${end}`, the ranges
\* joined with ', ', in brackets.
MarkChars(ids) ==
    LET RangeChars(r) ==
            IF r[1] = r[2] THEN NumberChars(r[1])
            ELSE NumberChars(r[1]) \o <<"-">> \o NumberChars(r[2])
        RECURSIVE JoinChars(_)
        JoinChars(rs) ==
            IF rs = <<>> THEN <<>>
            ELSE IF Len(rs) = 1 THEN RangeChars(rs[1])
            ELSE RangeChars(rs[1]) \o <<",", " ">> \o JoinChars(Tail(rs))
    IN  IF Len(ids) = 0 THEN <<>>
        ELSE IF Len(ids) = 1 THEN <<"[">> \o NumberChars(ids[1]) \o <<"]">>
        ELSE <<"[">> \o JoinChars(Ranges(ids)) \o <<"]">>

\* The value parseInt gives for a string with no leading digits.
NaN == -1

\* The first index from i on whose character is not a digit (Len + 1 when
\* there is none).
RECURSIVE SkipDigits(_, _)
SkipDigits(s, i) ==
    IF i <= Len(s) /\ s[i] \in Range(DigitChars) THEN SkipDigits(s, i + 1)
    ELSE i

RECURSIVE SkipSpaces(_, _)
SkipSpaces(s, i) ==
    IF i <= Len(s) /\ IsSpace(s[i]) THEN SkipSpaces(s, i + 1) ELSE i

\* parseInt(s) of a string without a sign: leading white space is skipped,
\* the longest run of digits is read, and what follows it is ignored.
parseInt(s) ==
    LET t == trimStart(s)
        n == SkipDigits(t, 1) - 1
        DigitValue(c) == (CHOOSE d \in DOMAIN DigitChars : DigitChars[d] = c) - 1
        RECURSIVE DecimalValue(_)
        DecimalValue(ds) ==
            IF ds = <<>> THEN 0
            ELSE 10 * DecimalValue(SubSeq(ds, 1, Len(ds) - 1))
                    + DigitValue(ds[Len(ds)])
    IN  IF n = 0 THEN NaN ELSE DecimalValue(SubSeq(t, 1, n))

\* String.prototype.split with a one-character separator
RECURSIVE split(_, _)
split(s, sep) ==
    IF \E i \in DOMAIN s : s[i] = sep
    THEN LET i == CHOOSE k \in DOMAIN s :
                     s[k] = sep /\ \A j \in 1..(k - 1) : s[j] # sep
         IN  <<SubSeq(s, 1, i - 1)>> \o split(SubSeq(s, i + 1, Len(s)), sep)
    ELSE <<s>>

\* The ids one comma-separated part adds: a range "a-b" adds a..b when both
\* ends are numbers, a single number adds itself, anything else nothing.
ParsePart(part) ==
    LET trimmed == trim(part)
    IN  IF \E i \in DOMAIN trimmed : trimmed[i] = "-"
        THEN LET ends == split(trimmed, "-")
                 start == parseInt(trim(ends[1]))
                 end == parseInt(trim(ends[2]))
             IN  IF start # NaN /\ end # NaN /\ start <= end
                 THEN [i \in 1..(end - start + 1) |-> start + i - 1]
                 ELSE <<>>
        ELSE LET id == parseInt(trimmed)
             IN  IF id # NaN THEN <<id>> ELSE <<>>

RECURSIVE ParseParts(_)
ParseParts(parts) ==
    IF parts = <<>> THEN <<>>
    ELSE ParsePart(Head(parts)) \o ParseParts(Tail(parts))

\* CitationTextProcessor.parseCitationString
parseCitationString(citationStr) == ParseParts(split(citationStr, ","))

\* The ids the renderer reads from the text between the brackets (the same
\* loop as parseCitationString).
citationIds(citationIdsStr) == ParseParts(split(citationIdsStr, ","))

\* /\[(\d+(?:[-,]\s*\d+)*)\]/ tried at index i: the index of the closing
\* bracket, or 0 when the expression does not match there.
MatchEnd(s, i) ==
    LET \* (?:[-,]\s*\d+)* from index j on: the index after the last
        \* repetition
        RECURSIVE GroupEnd(_)
        GroupEnd(j) ==
            IF j <= Len(s) /\ s[j] \in {"-", ","}
            THEN LET k == SkipSpaces(s, j + 1)
                     m == SkipDigits(s, k)
                 IN  IF m > k THEN GroupEnd(m) ELSE j
            ELSE j
    IN  IF s[i] # "[" THEN 0
        ELSE LET d == SkipDigits(s, i + 1)
             IN  IF d = i + 1 THEN 0
                 ELSE LET j == GroupEnd(d)
                      IN  IF j <= Len(s) /\ s[j] = "]" THEN j ELSE 0

\* The while loop of parseCitationMarks and the text pushed after it: a
\* part is a piece of text or a CitationLink with its ids.
RECURSIVE PartsFrom(_, _, _)
PartsFrom(s, lastIndex, parts) ==
    LET TextPart(chars) == [link |-> FALSE, text |-> chars, citationIds |-> <<>>]
        CitationLink(ids) == [link |-> TRUE, text |-> <<>>, citationIds |-> ids]
        \* citationRegex.exec(text): where the next match starts, or 0
        index == IF \E i \in lastIndex..Len(s) : MatchEnd(s, i) # 0
                 THEN CHOOSE i \in lastIndex..Len(s) :
                         /\ MatchEnd(s, i) # 0
                         /\ \A k \in lastIndex..(i - 1) : MatchEnd(s, k) = 0
                 ELSE 0
    IN  IF index = 0
        THEN IF lastIndex <= Len(s)
             THEN Append(parts, TextPart(SubSeq(s, lastIndex, Len(s))))
             ELSE parts
        ELSE LET close == MatchEnd(s, index)
                 before == IF index > lastIndex
                           THEN Append(parts,
                                       TextPart(SubSeq(s, lastIndex, index - 1)))
                           ELSE parts
                 ids == citationIds(SubSeq(s, index + 1, close - 1))
             IN  PartsFrom(s, close + 1,
                           IF Len(ids) > 0 THEN Append(before, CitationLink(ids))
                           ELSE before)

\* parseCitationMarks: the parts when there are two or more, otherwise the
\* text itself.
parseCitationMarks(text) ==
    LET parts == PartsFrom(text, 1, <<>>)
    IN  IF Len(parts) > 1
        THEN [isArray |-> TRUE, parts |-> parts, text |-> <<>>]
        ELSE [isArray |-> FALSE, parts |-> <<>>, text |-> text]

\* getAllCitations: the values sorted by id
getAllCitations(cits) ==
    SortBy(cits, [i \in DOMAIN cits |-> cits[i].id])

getCitedCitations_AtLeastZero(cits) ==
    SelectSeq(getAllCitations(cits), LAMBDA c : c.timesCited >= 0)

getCitedCitations(cits) ==
    SelectSeq(getAllCitations(cits), LAMBDA c : c.timesCited > 0)

getUncitedCitations(cits) ==
    SelectSeq(getAllCitations(cits), LAMBDA c : c.timesCited = 0)

\* The identity the design gives a source: scheme, host in lower case and
\* path; a string that is no URL is itself, in lower case and trimmed.
NormalForm(u) ==
    IF u.wellFormed
    THEN <<toLowerCase(u.protocol), toLowerCase(u.hostname),
           IF u.pathname = <<>> THEN <<"/">> ELSE u.pathname>>
    ELSE <<trim(toLowerCase(Raw(u)))>>

\* addCitations: the registry after the citations were added in order, and
\* the ids returned.
RECURSIVE addCitations(_, _, _)
addCitations(cits, counter, cs) ==
    IF cs = <<>> THEN [citations |-> cits, counter |-> counter, ids |-> <<>>]
    ELSE LET r == addCitation(cits, counter, Head(cs))
             rest == addCitations(r.citations, r.counter, Tail(cs))
         IN  [rest EXCEPT !.ids = <<r.ret>> \o rest.ids]

\* The string of a text.
RECURSIVE Concat(_)
Concat(s) == IF s = <<>> THEN "" ELSE Head(s) \o Concat(Tail(s))

\* CitationTextProcessor.insertCitationMarks on the registry: the registry
\* after the call, the ids of the citations, the mark and the text returned.
insertCitationMarks_NoUsage(cits, counter, text, cs) ==
    IF Len(cs) = 0
    THEN [citations |-> cits, counter |-> counter, ids |-> <<>>,
          mark |-> "", items |-> <<>>, out |-> Concat(text)]
    ELSE LET added == addCitations(cits, counter, cs)
             citationMark == generateMultipleInTextCitations(added.ids)
         IN  [citations |-> added.citations,
              counter |-> added.counter,
              ids |-> added.ids,
              mark |-> citationMark,
              items |-> MarkItems(added.ids),
              out |-> Concat(trim(text)) \o " " \o citationMark]

insertCitationMarks(cits, counter, text, cs) ==
    IF Len(cs) = 0
    THEN [citations |-> cits, counter |-> counter, ids |-> <<>>,
          mark |-> "", items |-> <<>>, out |-> Concat(text)]
    ELSE LET added == addCitations(cits, counter, cs)
             citationMark == generateMultipleInTextCitations(added.ids)
         IN  [citations |-> recordCitationUsage(added.citations, added.ids),
              counter |-> added.counter,
              ids |-> added.ids,
              mark |-> citationMark,
              items |-> MarkItems(added.ids),
              out |-> Concat(trim(text)) \o " " \o citationMark]

\* clear(): the registry after the call
clear_KeepsCounter(cits, counter) == [citations |-> <<>>, counter |-> counter]

clear(cits, counter) == [citations |-> <<>>, counter |-> 1]

NoCall == [op |-> "none", ids |-> <<>>, ret |-> 0, mark |-> "", items |-> <<>>,
           url |-> NoUrl, text |-> <<>>, urls |-> <<>>, out |-> "",
           chars |-> <<>>]

InitCite ==
    /\ citations = <<>>
    /\ citationCounter = 1
    /\ lastCall = NoCall
    /\ firstSeen = <<>>
    /\ usedIds = {}
    /\ prevCitations = <<>>
    /\ argIds = <<>>
    /\ nOps = 0

\* The id lists usage is recorded with: known and unknown ids, repeats,
\* both orders.
IdLists ==
    { <<>>, <<1>>, <<2>>, <<4>>, <<1, 2>>, <<2, 1>>, <<1, 1>>, <<3, 1>>,
      <<2, 4>>, <<3, 2, 1>> }

StoredIds(cits) == { cits[i].id : i \in DOMAIN cits }

AddCitation(u) ==
    /\ nOps < MaxOps
    /\ LET r == addCitation(citations, citationCounter, u)
           form == NormalForm(u)
       IN  /\ citations' = r.citations
           /\ citationCounter' = r.counter
           /\ lastCall' = [NoCall EXCEPT !.op = "addCitation", !.ret = r.ret,
                                         !.url = u]
           /\ firstSeen' = IF form \in Range(firstSeen) THEN firstSeen
                           ELSE Append(firstSeen, form)
    /\ prevCitations' = citations
    /\ nOps' = nOps + 1
    /\ UNCHANGED <<usedIds, argIds>>
    /\ UNCHANGED <<execVars, outlineVars, intervalVars, synthVars, strategyVars>>

RecordCitationUsage(ids) ==
    /\ nOps < MaxOps
    /\ citations' = recordCitationUsage(citations, ids)
    /\ lastCall' = [NoCall EXCEPT !.op = "recordCitationUsage", !.ids = ids]
    /\ usedIds' = usedIds \cup (Range(ids) \cap StoredIds(citations))
    /\ prevCitations' = citations
    /\ nOps' = nOps + 1
    /\ UNCHANGED <<citationCounter, firstSeen, argIds>>
    /\ UNCHANGED <<execVars, outlineVars, intervalVars, synthVars, strategyVars>>

GenerateInTextCitation(id) ==
    /\ nOps < MaxOps
    /\ citations' = recordCitationUsage(citations, <<id>>)
    /\ lastCall' = [NoCall EXCEPT !.op = "generateInTextCitation",
                                  !.ids = <<id>>,
                                  !.mark = "[" \o ToString(id) \o "]",
                                  !.items = << <<id, id>> >>]
    /\ usedIds' = usedIds \cup ({id} \cap StoredIds(citations))
    /\ prevCitations' = citations
    /\ nOps' = nOps + 1
    /\ UNCHANGED <<citationCounter, firstSeen, argIds>>
    /\ UNCHANGED <<execVars, outlineVars, intervalVars, synthVars, strategyVars>>

GenerateMultipleInTextCitations_RenderOnly(ids) ==
    /\ nOps < MaxOps
    /\ citations' = citations
    /\ lastCall' = [NoCall EXCEPT !.op = "generateMultipleInTextCitations",
                                  !.ids = ids,
                                  !.mark = generateMultipleInTextCitations(ids),
                                  !.chars = MarkChars(ids),
                                  !.items = MarkItems(ids)]
    /\ usedIds' = usedIds
    /\ prevCitations' = citations
    /\ nOps' = nOps + 1
    /\ UNCHANGED <<citationCounter, firstSeen, argIds>>
    /\ UNCHANGED <<execVars, outlineVars, intervalVars, synthVars, strategyVars>>

GenerateMultipleInTextCitations(ids) ==
    /\ nOps < MaxOps
    /\ citations' = recordCitationUsage(citations, ids)
    /\ lastCall' = [NoCall EXCEPT !.op = "generateMultipleInTextCitations",
                                  !.ids = ids,
                                  !.mark = generateMultipleInTextCitations(ids),
                                  !.chars = MarkChars(ids),
                                  !.items = MarkItems(ids)]
    /\ usedIds' = usedIds \cup (Range(ids) \cap StoredIds(citations))
    /\ prevCitations' = citations
    /\ nOps' = nOps + 1
    /\ UNCHANGED <<citationCounter, firstSeen, argIds>>
    /\ UNCHANGED <<execVars, outlineVars, intervalVars, synthVars, strategyVars>>

\* The texts and the citation lists insertCitationMarks is called with: no
\* citation, one, two, and two of the same source.
MarkTexts == { <<>>, <<"a", " ">> }

CitationLists ==
    { <<>>,
      << [NoUrl EXCEPT !.pathname = <<"/b">>] >>,
      << [NoUrl EXCEPT !.hash = <<"#top">>],
         [NoUrl EXCEPT !.pathname = <<"/b">>] >>,
      << [NoUrl EXCEPT !.hash = <<"#top">>],
         [NoUrl EXCEPT !.hostname = <<"E", "xample.com">>,
                       !.search = <<"?x=1">>] >> }

\* firstSeen after the citations cs are added in order
RECURSIVE SeenAfter(_, _)
SeenAfter(seen, cs) ==
    IF cs = <<>> THEN seen
    ELSE SeenAfter(IF NormalForm(Head(cs)) \in Range(seen) THEN seen
                   ELSE Append(seen, NormalForm(Head(cs))),
                   Tail(cs))

InsertCitationMarks(text, cs) ==
    /\ nOps < MaxOps
    /\ LET r == insertCitationMarks(citations, citationCounter, text, cs)
       IN  /\ citations' = r.citations
           /\ citationCounter' = r.counter
           /\ lastCall' = [NoCall EXCEPT !.op = "insertCitationMarks",
                                         !.ids = r.ids, !.mark = r.mark,
                                         !.items = r.items, !.text = text,
                                         !.urls = cs, !.out = r.out]
           /\ usedIds' = usedIds \cup Range(r.ids)
    /\ firstSeen' = SeenAfter(firstSeen, cs)
    /\ prevCitations' = citations
    /\ nOps' = nOps + 1
    /\ UNCHANGED argIds
    /\ UNCHANGED <<execVars, outlineVars, intervalVars, synthVars, strategyVars>>

Clear ==
    /\ nOps < MaxOps
    /\ citations' = clear(citations, citationCounter).citations
    /\ citationCounter' = clear(citations, citationCounter).counter
    /\ lastCall' = [NoCall EXCEPT !.op = "clear"]
    /\ firstSeen' = <<>>
    /\ usedIds' = {}
    /\ prevCitations' = citations
    /\ nOps' = nOps + 1
    /\ UNCHANGED argIds
    /\ UNCHANGED <<execVars, outlineVars, intervalVars, synthVars, strategyVars>>

\* ========================================================================
\* Negotiation Engine: generateAcademicOutline
\* ========================================================================

MaxRounds == 4

maxTurnRetries == 2

Other_Same(persona) == persona

Other(persona) == IF persona = "Alpha" THEN "Beta" ELSE "Alpha"

\* What a generateContent call of a turn returns: a response whose text is
\* not empty (the Execution Layer returns no other), which
\* parseJsonFromMarkdown reads as an object or not at all.
NoTurn == [hasText |-> TRUE, parsed |-> FALSE, thought |-> "",
           action |-> "", final_outline |-> ""]

TurnReplies ==
    { NoTurn,
      [NoTurn EXCEPT !.parsed = TRUE, !.action = "continue_debate"] }
    \cup { [NoTurn EXCEPT !.parsed = TRUE, !.thought = "thought",
                          !.action = "continue_debate", !.final_outline = o] :
            o \in {"", "outline1"} }
    \cup { [NoTurn EXCEPT !.parsed = TRUE, !.thought = "thought",
                          !.action = "finalize_outline", !.final_outline = o] :
            o \in {"", "outline1", "outline2"} }

\* What the final generateContent call returns.
FinalTexts == { <<"o", "k">>, <<" ", "o", "k">>, <<"o", "k", " ">> }

\* The checks of one attempt of a turn: whether the response is a turn.
TurnValid(r) ==
    /\ r.hasText
    /\ r.parsed
    /\ r.thought # ""

\* The check that ends the negotiation.
ShouldFinalize_WrongAction(r) ==
    r.action = "finalize" /\ r.final_outline # ""

ShouldFinalize_ActionOnly(r) == r.action = "finalize_outline"

ShouldFinalize(r) ==
    r.action = "finalize_outline" /\ r.final_outline # ""

\* The call of the observer for the turn accepted.
onDebateUpdate_AfterSwitch(obs, has, persona, thought) ==
    IF has
    THEN Append(obs, [persona |-> Other(persona), thought |-> thought])
    ELSE obs

onDebateUpdate(obs, has, persona, thought) ==
    IF has
    THEN Append(obs, [persona |-> persona, thought |-> thought])
    ELSE obs

\* The outline returned for the text of the final response.
FinalOutline_Untrimmed(text) == Concat(text)

FinalOutline(text) == Concat(trim(text))

\* The condition of the while loop.
LoopContinues_OneMore(turns, max) == turns <= max

LoopContinues_TwoMore(turns, max) == turns < max + 2

LoopContinues(turns, max) == turns < max

\* The error an outcome of the engine is thrown as: its name and message.
\* checkSignal throws a plain Error; the abort of a call in flight comes up
\* from fetch as an AbortError; the Execution Layer's aggregate error has a
\* class of its own.
ErrorOf(o) ==
    CASE o = "aborted" ->
            [name |-> "Error",
             message |-> "Academic outline generation was aborted"]
      [] o = "AbortError" ->
            [name |-> "AbortError", message |-> "The operation was aborted"]
      [] o = "AllKeysFailedError" ->
            [name |-> "AllKeysFailedError", message |-> "All API keys failed"]
      [] o = "empty_final_response" ->
            [name |-> "Error",
             message |-> "Failed to generate academic outline due to an empty response from the API."]
      [] OTHER -> [name |-> "", message |-> ""]

InitOutline ==
    /\ maxDebateRounds \in 1..MaxRounds
    /\ debateTurns = 0
    /\ nextPersona = "Alpha"
    /\ currentConversation = <<>>
    /\ oPc = "idle"
    /\ turnAttempt = 0
    /\ retryDelay = 0
    /\ turnCalls = 0
    /\ fallbackCalls = 0
    /\ observed = <<>>
    /\ hasObserver = FALSE
    /\ oHasSignal = FALSE
    /\ oAborted = FALSE
    /\ oOutcome = "none"
    /\ oResult = ""
    /\ finalResponse = <<>>
    /\ turnLog = <<>>

\* checkSignal() throws
Throws(isAborted) ==
    /\ oPc' = "done"
    /\ oOutcome' = "aborted"
    /\ UNCHANGED <<turnAttempt, turnCalls, fallbackCalls, oResult>>

\* One attempt of a turn: checkSignal, then the call is issued.
IssueAttempt(n, isAborted) ==
    IF isAborted
    THEN Throws(isAborted)
    ELSE /\ oPc' = "awaiting"
         /\ turnAttempt' = n
         /\ turnCalls' = turnCalls + 1
         /\ UNCHANGED <<fallbackCalls, oOutcome, oResult>>

\* The head of the while loop with debateTurns = turns: a turn is begun,
\* or the loop is left and the final call is issued.
WhileHead(turns, isAborted) ==
    IF LoopContinues(turns, maxDebateRounds)
    THEN /\ IssueAttempt(1, isAborted)
         /\ debateTurns' = IF isAborted THEN turns ELSE turns + 1
    ELSE /\ oPc' = "fallback"
         /\ fallbackCalls' = fallbackCalls + 1
         /\ debateTurns' = turns
         /\ UNCHANGED <<turnAttempt, turnCalls, oOutcome, oResult>>

\* generateAcademicOutline is called.
StartOutline(signal, preAborted, observer) ==
    /\ oPc = "idle"
    /\ oHasSignal' = signal
    /\ oAborted' = (signal /\ preAborted)
    /\ hasObserver' = observer
    /\ WhileHead(0, signal /\ preAborted)
    /\ UNCHANGED <<maxDebateRounds, nextPersona, currentConversation,
                   retryDelay, observed, finalResponse, turnLog>>
    /\ UNCHANGED <<execVars, citeVars, intervalVars, synthVars, strategyVars>>

\* The call of a turn returns r.
TurnReturns(r) ==
    /\ oPc = "awaiting"
    /\ IF oAborted
       THEN /\ Throws(TRUE)
            /\ UNCHANGED <<debateTurns, nextPersona, currentConversation,
                           retryDelay, observed, turnLog>>
       ELSE IF ~TurnValid(r)
       THEN IF turnAttempt < maxTurnRetries
            THEN \* wait, then the next attempt
                 /\ oPc' = "retryWait"
                 /\ retryDelay' = IF turnAttempt = 1 THEN 3000 ELSE 6000
                 /\ UNCHANGED <<debateTurns, nextPersona, currentConversation,
                                observed, turnLog, turnAttempt, turnCalls,
                                fallbackCalls, oOutcome, oResult>>
            ELSE \* the turn failed: the other agent goes on
                 /\ nextPersona' = Other(nextPersona)
                 /\ turnLog' = Append(turnLog,
                        [persona |-> nextPersona, accepted |-> FALSE,
                         action |-> "", artifact |-> ""])
                 /\ WhileHead(debateTurns + 1, FALSE)
                 /\ UNCHANGED <<currentConversation, retryDelay, observed>>
       ELSE /\ currentConversation' = Append(currentConversation,
                    [persona |-> nextPersona, thought |-> r.thought])
            /\ observed' = onDebateUpdate(observed, hasObserver, nextPersona,
                                          r.thought)
            /\ turnLog' = Append(turnLog,
                    [persona |-> nextPersona, accepted |-> TRUE,
                     action |-> r.action, artifact |-> r.final_outline])
            /\ retryDelay' = retryDelay
            /\ IF ShouldFinalize(r)
               THEN /\ oPc' = "done"
                    /\ oOutcome' = "finalized"
                    /\ oResult' = r.final_outline
                    /\ UNCHANGED <<debateTurns, nextPersona, turnAttempt,
                                   turnCalls, fallbackCalls>>
               ELSE /\ nextPersona' = Other(nextPersona)
                    /\ WhileHead(debateTurns, FALSE)
    /\ UNCHANGED <<maxDebateRounds, hasObserver, oHasSignal, oAborted,
                   finalResponse>>
    /\ UNCHANGED <<execVars, citeVars, intervalVars, synthVars, strategyVars>>

\* The sleep between two attempts of a turn ends.
RetryWaitEnds ==
    /\ oPc = "retryWait"
    /\ IssueAttempt(turnAttempt + 1, oAborted)
    /\ retryDelay' = 0
    /\ UNCHANGED <<maxDebateRounds, debateTurns, nextPersona,
                   currentConversation, observed, hasObserver, oHasSignal,
                   oAborted, finalResponse, turnLog>>
    /\ UNCHANGED <<execVars, citeVars, intervalVars, synthVars, strategyVars>>

\* A generateContent call throws: the Execution Layer's aggregate error, or
\* the AbortError of a call aborted by the caller.
CallThrows_SkipsTurn(error) ==
    /\ oPc \in {"awaiting", "fallback"}
    /\ error = "AbortError" => oAborted
    /\ IF oPc = "awaiting" /\ error = "AllKeysFailedError"
       THEN /\ nextPersona' = Other(nextPersona)
            /\ turnLog' = Append(turnLog,
                   [persona |-> nextPersona, accepted |-> FALSE,
                    action |-> "", artifact |-> ""])
            /\ WhileHead(debateTurns + 1, FALSE)
       ELSE /\ oPc' = "done"
            /\ oOutcome' = error
            /\ UNCHANGED <<debateTurns, nextPersona, turnAttempt, turnCalls,
                           fallbackCalls, oResult, turnLog>>
    /\ UNCHANGED <<maxDebateRounds, currentConversation, retryDelay,
                   observed, hasObserver, oHasSignal, oAborted,
                   finalResponse>>
    /\ UNCHANGED <<execVars, citeVars, intervalVars, synthVars, strategyVars>>

CallThrows(error) ==
    /\ oPc \in {"awaiting", "fallback"}
    /\ error = "AbortError" => oAborted
    /\ oPc' = "done"
    /\ oOutcome' = error
    /\ UNCHANGED <<maxDebateRounds, debateTurns, nextPersona,
                   currentConversation, turnAttempt, retryDelay, turnCalls,
                   fallbackCalls, observed, hasObserver, oHasSignal, oAborted,
                   oResult, finalResponse, turnLog>>
    /\ UNCHANGED <<execVars, citeVars, intervalVars, synthVars, strategyVars>>

\* The final call returns text.
FallbackReturns(text) ==
    /\ oPc = "fallback"
    /\ oPc' = "done"
    /\ finalResponse' = text
    /\ IF text = <<>>
       THEN /\ oOutcome' = "empty_final_response"
            /\ oResult' = oResult
       ELSE /\ oOutcome' = "fallback"
            /\ oResult' = FinalOutline(text)
    /\ UNCHANGED <<maxDebateRounds, debateTurns, nextPersona,
                   currentConversation, turnAttempt, retryDelay, turnCalls,
                   fallbackCalls, observed, hasObserver, oHasSignal, oAborted,
                   turnLog>>
    /\ UNCHANGED <<execVars, citeVars, intervalVars, synthVars, strategyVars>>

\* The caller's signal fires while the engine waits.
AbortOutline ==
    /\ oPc \in {"awaiting", "retryWait", "fallback"}
    /\ oHasSignal
    /\ ~oAborted
    /\ oAborted' = TRUE
    /\ UNCHANGED <<maxDebateRounds, debateTurns, nextPersona,
                   currentConversation, oPc, turnAttempt, retryDelay,
                   turnCalls, fallbackCalls, observed, hasObserver,
                   oHasSignal, oOutcome, oResult, finalResponse, turnLog>>
    /\ UNCHANGED <<execVars, citeVars, intervalVars, synthVars, strategyVars>>

\* ========================================================================
\* Rate-Adaptation Tracker: ApiIntervalManager
\* ========================================================================

MaxRecords == 11
MaxTicks == 2

\* By how much the clock advances between two calls.
ClockSteps == {150000, 300000}

MAX_ERROR_HISTORY == 10

maxDelay == 20000

\* 5 * 60 * 1000
fiveMinutes == 5 * 60 * 1000

\* ResearchMode
ResearchModes == {"Balanced", "DeepDive", "Fast", "UltraFast"}

\* DEFAULT_SETTINGS.apiIntervalConfig. A multiplier is kept in tenths: 12
\* stands for 1.2.
DefaultIntervalConfig ==
    [baseDelayMs |-> 15000, dynamicAdjustment |-> TRUE,
     deepDiveMultiplier |-> 12, balancedMultiplier |-> 11,
     quickMultiplier |-> 10, errorThreshold |-> 3, errorMultiplier |-> 15]

\* The configurations calculateDelay is called with: the default one and
\* settings a user saved.
IntervalConfigs ==
    { DefaultIntervalConfig,
      [DefaultIntervalConfig EXCEPT !.dynamicAdjustment = FALSE],
      [DefaultIntervalConfig EXCEPT !.baseDelayMs = 18000],
      [DefaultIntervalConfig EXCEPT !.baseDelayMs = 1001,
                                    !.quickMultiplier = 5,
                                    !.balancedMultiplier = 25] }

Min(a, b) == IF a <= b THEN a ELSE b

\* Math.round of num / den (den > 0): the nearest integer, a half goes up.
MathRound(num, den) == (2 * num + den) \div (2 * den)

\* getRecentErrorCount at time t
getRecentErrorCount_CountsAll(hist, t) == Len(hist)

getRecentErrorCount(hist, t) ==
    Len(SelectSeq(hist, LAMBDA timestamp : timestamp > t - fiveMinutes))

\* The multiplier the switch on the mode applies, in tenths. No
\* ResearchMode is 'Quick': for Fast and UltraFast no case is taken.
ModeMultiplier(mode, config) ==
    CASE mode = "DeepDive" -> config.deepDiveMultiplier
      [] mode = "Balanced" -> config.balancedMultiplier
      [] mode = "Quick" -> config.quickMultiplier
      [] OTHER -> 10

\* Whether the error multiplier is applied.
Escalates(config, hist, t) ==
    /\ config.dynamicAdjustment
    /\ getRecentErrorCount(hist, t) >= config.errorThreshold

\* Math.min(baseDelay, maxDelay), baseDelay being in hundredths of a ms
capDelay_Uncapped(baseDelay100) == baseDelay100

capDelay(baseDelay100) == Min(baseDelay100, maxDelay * 100)

\* calculateDelay(mode, config) with the history hist at time t. The
\* products are exact: baseDelay is carried in hundredths of a millisecond.
calculateDelay(mode, config, hist, t) ==
    LET scaled == config.baseDelayMs * ModeMultiplier(mode, config)
        baseDelay100 == IF Escalates(config, hist, t)
                        THEN scaled * config.errorMultiplier
                        ELSE scaled * 10
    IN  MathRound(capDelay(baseDelay100), 100)

\* record429Error at time t: the history after the call
record429Error_DropsNewest(hist, t) ==
    IF Len(hist) + 1 > MAX_ERROR_HISTORY THEN hist ELSE Append(hist, t)

record429Error(hist, t) ==
    LET pushed == Append(hist, t)
    IN  IF Len(pushed) > MAX_ERROR_HISTORY THEN Tail(pushed) ELSE pushed

NoDelay == [mode |-> "", config |-> DefaultIntervalConfig, result |-> 0,
            recent |-> 0]

InitInterval ==
    /\ errorHistory = <<>>
    /\ now = 0
    /\ lastDelay = NoDelay
    /\ allRecorded = <<>>
    /\ nRecorded = 0
    /\ nTicks = 0

\* Time passes.
Tick(d) ==
    /\ nTicks < MaxTicks
    /\ now' = now + d
    /\ nTicks' = nTicks + 1
    /\ lastDelay' = NoDelay
    /\ UNCHANGED <<errorHistory, allRecorded, nRecorded>>
    /\ UNCHANGED <<execVars, citeVars, outlineVars, synthVars, strategyVars>>

CalculateDelay(mode, config) ==
    /\ lastDelay = NoDelay
    /\ lastDelay' = [mode |-> mode, config |-> config,
                     result |-> calculateDelay(mode, config, errorHistory, now),
                     recent |-> getRecentErrorCount(errorHistory, now)]
    /\ UNCHANGED <<errorHistory, now, allRecorded, nRecorded, nTicks>>
    /\ UNCHANGED <<execVars, citeVars, outlineVars, synthVars, strategyVars>>

Record429Error ==
    /\ nRecorded < MaxRecords
    /\ errorHistory' = record429Error(errorHistory, now)
    /\ allRecorded' = Append(allRecorded, now)
    /\ nRecorded' = nRecorded + 1
    /\ lastDelay' = NoDelay
    /\ UNCHANGED <<now, nTicks>>
    /\ UNCHANGED <<execVars, citeVars, outlineVars, synthVars, strategyVars>>

ClearErrorHistory ==
    /\ errorHistory' = <<>>
    /\ allRecorded' = <<>>
    /\ lastDelay' = NoDelay
    /\ UNCHANGED <<now, nRecorded, nTicks>>
    /\ UNCHANGED <<execVars, citeVars, outlineVars, synthVars, strategyVars>>

\* ========================================================================
\* Synthesis Driver: synthesizeReport
\* ========================================================================

MaxOutline == 6

\* The characters of the outlines of the model.
OutlineChars == {"#", " ", "\n", "a"}

Outlines == UNION { [1..n -> OutlineChars] : n \in 0..MaxOutline }

\* The lookahead (?=#{1,2}\s) at position i of s.
HeadingAt(s, i) ==
    /\ i <= Len(s)
    /\ s[i] = "#"
    /\ \/ i + 1 <= Len(s) /\ IsSpace(s[i + 1])
       \/ i + 2 <= Len(s) /\ s[i + 1] = "#" /\ IsSpace(s[i + 2])

\* academicOutline.split(/\n(?=#{1,2}\s)/): the pieces of s from position
\* start on, i being the position the scan has reached.
RECURSIVE SplitAt(_, _, _)
SplitAt(s, i, start) ==
    IF i > Len(s) THEN << SubSeq(s, start, Len(s)) >>
    ELSE IF s[i] = "\n" /\ HeadingAt(s, i + 1)
         THEN << SubSeq(s, start, i - 1) >> \o SplitAt(s, i + 1, i + 1)
         ELSE SplitAt(s, i + 1, start)

\* .split(...).map(c => c.trim()).filter(c => c)
Chapters(outline) ==
    LET pieces  == SplitAt(outline, 1, 1)
        trimmed == [i \in DOMAIN pieces |-> trim(pieces[i])]
    IN  SelectSeq(trimmed, LAMBDA c : c # <<>>)

\* chapterOutline.split('\n')[0]
RECURSIVE FirstLine(_)
FirstLine(s) ==
    IF s = <<>> \/ Head(s) = "\n" THEN <<>>
    ELSE << Head(s) >> \o FirstLine(Tail(s))

\* What the awaited generateContent call resolves to: no response, or one
\* with a text.  The Execution Layer resolves only with a text that is not
\* blank; generateChapter and the whole-document branch check for the other
\* cases all the same, and the model feeds them too.
\* cites: the ids the citation marks of the text mention.
NoResponse == [present |-> FALSE, text |-> <<>>, cites |-> {}]

ChapterResponses ==
    { NoResponse, [NoResponse EXCEPT !.present = TRUE] }
      \cup { [present |-> TRUE, text |-> t, cites |-> {}] :
               t \in { <<"x">>, <<" ", "y", "\n">> } }
      \cup { [present |-> TRUE, text |-> <<"x">>, cites |-> c] :
               c \in { {1}, {1, 3} } }

\* The responses whose text has no citation mark.
PlainResponses == { r \in ChapterResponses : r.cites = {} }

\* citationTextProcessor.validateCitationMarks: the marks are valid when
\* every id they mention is an id of the registry.
validateCitationMarks(cits, cites) ==
    [isValid |-> \A id \in cites : getCitationById(cits, id) # 0]

\* if (!validation.isValid) console.warn(...): what follows a validation.
AfterValidation_Throws(isValid) == [warn |-> ~isValid, throw |-> ~isValid]

AfterValidation(isValid) == [warn |-> ~isValid, throw |-> FALSE]

\* The validation of the text of a response, where there is one to validate.
Validation(cits, chapter, response) ==
    LET isValid == validateCitationMarks(cits, response.cites).isValid
    IN  [chapter |-> chapter, cites |-> response.cites,
         known |-> StoredIds(cits), isValid |-> isValid,
         warned |-> AfterValidation(isValid).warn,
         throw |-> AfterValidation(isValid).throw]

HasText(response) == response.present /\ response.text # <<>>

\* generateChapter: the chunk returned for a chapter and a response.
generateChapter(chapterOutline, response) ==
    IF ~response.present \/ response.text = <<>>
    THEN "## " \o Concat(FirstLine(chapterOutline))
           \o "\n\n[Content generation for this chapter failed or returned empty.]\n\n"
    ELSE Concat(trim(response.text))

\* generatedChapters.join('\n\n')
RECURSIVE JoinChapters_Reversed(_)
JoinChapters_Reversed(chunks) ==
    IF chunks = <<>> THEN ""
    ELSE IF Len(chunks) = 1 THEN chunks[1]
    ELSE JoinChapters_Reversed(Tail(chunks)) \o "\n\n" \o chunks[1]

RECURSIVE JoinChapters(_)
JoinChapters(chunks) ==
    IF chunks = <<>> THEN ""
    ELSE IF Len(chunks) = 1 THEN chunks[1]
    ELSE chunks[1] \o "\n\n" \o JoinChapters(Tail(chunks))

\* The value returned by the whole-document branch for a response.
WholeReport(response) ==
    IF response.text = <<>>
    THEN "Failed to generate an initial report. The response from the AI was empty."
    ELSE Concat(trim(response.text))

InitSynth ==
    /\ sPc = "idle"
    /\ chapters = <<>>
    /\ chapterIdx = 0
    /\ generatedChapters = <<>>
    /\ synthRequests = <<>>
    /\ sInFlight = 0
    /\ wholeRequests = 0
    /\ sHasSignal = FALSE
    /\ sAborted = FALSE
    /\ sOutcome = ""
    /\ report = ""
    /\ validations = <<>>
    /\ sessionCitations = <<>>

\* The head of the for..of loop at chapter i: the loop is over and the
\* chunks are joined, or the signal is found aborted, or the request for
\* chapter i is issued.
ChapterLoopHead_NoCheck(chs, i, chunks, signalAborted) ==
    /\ chapterIdx' = i
    /\ IF i > Len(chs)
       THEN /\ sPc' = "done"
            /\ sOutcome' = "ok"
            /\ report' = JoinChapters(chunks)
            /\ UNCHANGED <<synthRequests, sInFlight>>
       ELSE /\ sPc' = "generating"
            /\ synthRequests' = Append(synthRequests, chs[i])
            /\ sInFlight' = sInFlight + 1
            /\ UNCHANGED <<sOutcome, report>>

ChapterLoopHead(chs, i, chunks, signalAborted) ==
    /\ chapterIdx' = i
    /\ IF i > Len(chs)
       THEN /\ sPc' = "done"
            /\ sOutcome' = "ok"
            /\ report' = JoinChapters(chunks)
            /\ UNCHANGED <<synthRequests, sInFlight>>
       ELSE IF signalAborted
       THEN /\ sPc' = "done"
            /\ sOutcome' = "AbortError"
            /\ UNCHANGED <<report, synthRequests, sInFlight>>
       ELSE /\ sPc' = "generating"
            /\ synthRequests' = Append(synthRequests, chs[i])
            /\ sInFlight' = sInFlight + 1
            /\ UNCHANGED <<sOutcome, report>>

\* citationManager.clear(); citationManager.addCitations(citations): the
\* registry of the process is emptied and filled with the citations of the
\* call.
InitCitationManager(cs) ==
    LET cleared == clear(citations, citationCounter)
        added   == addCitations(cleared.citations, cleared.counter, cs)
    IN  /\ citations' = added.citations
        /\ citationCounter' = added.counter
        /\ lastCall' = [NoCall EXCEPT !.op = "addCitations",
                                      !.ids = added.ids, !.urls = cs]
        /\ firstSeen' = SeenAfter(<<>>, cs)
        /\ usedIds' = {}
        /\ prevCitations' = citations
        /\ UNCHANGED <<argIds, nOps>>

\* synthesizeReport is called: the registry is set up; with an outline the
\* outline is split and the loop is entered, without one the whole-document
\* request is issued.
StartSynthesis(cs, signal, preAborted) ==
    /\ sPc = "idle"
    /\ preAborted => signal
    /\ InitCitationManager(cs)
    /\ sessionCitations' = citations'
    /\ sHasSignal' = signal
    /\ sAborted' = preAborted
    /\ generatedChapters' = <<>>
    /\ IF academicOutline # <<>>
       THEN /\ chapters' = Chapters(academicOutline)
            /\ ChapterLoopHead(Chapters(academicOutline), 1, <<>>, preAborted)
            /\ UNCHANGED wholeRequests
       ELSE /\ sPc' = "whole"
            /\ wholeRequests' = wholeRequests + 1
            /\ sInFlight' = sInFlight + 1
            /\ UNCHANGED <<chapters, chapterIdx, synthRequests, sOutcome, report>>
    /\ UNCHANGED <<academicOutline, validations>>
    /\ UNCHANGED <<execVars, outlineVars, intervalVars, strategyVars>>

\* await generateChapter(...) returns: a text is validated against the
\* registry, the chunk is pushed and the pause of 1500 ms starts.
ChapterReturns(response) ==
    /\ sPc = "generating"
    /\ sInFlight' = sInFlight - 1
    /\ LET v == Validation(citations, chapterIdx, response)
       IN  IF HasText(response) /\ v.throw
           THEN /\ validations' = Append(validations, v)
                /\ sPc' = "done"
                /\ sOutcome' = "InvalidCitation"
                /\ UNCHANGED generatedChapters
           ELSE /\ validations' = IF HasText(response)
                                  THEN Append(validations, v)
                                  ELSE validations
                /\ generatedChapters' =
                      Append(generatedChapters,
                             generateChapter(chapters[chapterIdx], response))
                /\ sPc' = "sleeping"
                /\ UNCHANGED sOutcome
    /\ UNCHANGED <<academicOutline, chapters, chapterIdx, synthRequests,
                   wholeRequests, sHasSignal, sAborted, report,
                   sessionCitations>>
    /\ UNCHANGED <<execVars, citeVars, outlineVars, intervalVars, strategyVars>>

\* The awaited request throws: the aggregate error, or AbortError once the
\* signal is aborted; synthesizeReport rejects with it.
SynthesisThrows(error) ==
    /\ sPc \in {"generating", "whole"}
    /\ error = "AbortError" => sHasSignal /\ sAborted
    /\ sInFlight' = sInFlight - 1
    /\ sPc' = "done"
    /\ sOutcome' = error
    /\ UNCHANGED <<academicOutline, chapters, chapterIdx, generatedChapters,
                   synthRequests, wholeRequests, sHasSignal, sAborted, report,
                   validations, sessionCitations>>
    /\ UNCHANGED <<execVars, citeVars, outlineVars, intervalVars, strategyVars>>

\* The pause after a chapter ends: the loop goes to the next chapter.
ChapterPauseEnds ==
    /\ sPc = "sleeping"
    /\ ChapterLoopHead(chapters, chapterIdx + 1, generatedChapters,
                       sHasSignal /\ sAborted)
    /\ UNCHANGED <<academicOutline, chapters, generatedChapters,
                   wholeRequests, sHasSignal, sAborted, validations,
                   sessionCitations>>
    /\ UNCHANGED <<execVars, citeVars, outlineVars, intervalVars, strategyVars>>

\* The whole-document request returns: a text is validated against the
\* registry and returned.
WholeReturns(response) ==
    /\ sPc = "whole"
    /\ sInFlight' = sInFlight - 1
    /\ sPc' = "done"
    /\ LET v == Validation(citations, 0, response)
       IN  IF ~response.present
           THEN sOutcome' = "Error" /\ UNCHANGED <<report, validations>>
           ELSE IF ~HasText(response)
           THEN /\ sOutcome' = "ok"
                /\ report' = WholeReport(response)
                /\ UNCHANGED validations
           ELSE /\ validations' = Append(validations, v)
                /\ IF v.throw
                   THEN sOutcome' = "InvalidCitation" /\ UNCHANGED report
                   ELSE sOutcome' = "ok" /\ report' = WholeReport(response)
    /\ UNCHANGED <<academicOutline, chapters, chapterIdx, generatedChapters,
                   synthRequests, wholeRequests, sHasSignal, sAborted,
                   sessionCitations>>
    /\ UNCHANGED <<execVars, citeVars, outlineVars, intervalVars, strategyVars>>

\* The user aborts the signal while synthesizeReport runs.
AbortSynthesis ==
    /\ sPc \in {"generating", "sleeping", "whole"}
    /\ sHasSignal
    /\ ~sAborted
    /\ sAborted' = TRUE
    /\ UNCHANGED <<academicOutline, sPc, chapters, chapterIdx,
                   generatedChapters, synthRequests, sInFlight, wholeRequests,
                   sHasSignal, sOutcome, report, validations,
                   sessionCitations>>
    /\ UNCHANGED <<execVars, citeVars, outlineVars, intervalVars, strategyVars>>

\* While this call of synthesizeReport runs, a second research session of
\* the process calls synthesizeReport with its own citations: its first
\* statements empty and fill the registry, which is the one object
\* citationManager of the process.  (The second session starts while the
\* registry is still as this call filled it.)
OtherSessionStarts(cs) ==
    /\ sPc \in {"generating", "sleeping", "whole"}
    /\ citations = sessionCitations
    /\ InitCitationManager(cs)
    /\ UNCHANGED synthVars
    /\ UNCHANGED <<execVars, outlineVars, intervalVars, strategyVars>>

\* ========================================================================
\* Search Strategy: SearchStrategy
\* ========================================================================
\* A query is a sequence of words; a priority is kept in hundredths.

MaxQueries == 7
MaxStrategyOps == 3

\* The config of the constructor called without an argument.
DefaultStrategyConfig ==
    [enableAcademicKeywords |-> TRUE, enableTimeRangeFilter |-> TRUE,
     timeRangeYears |-> 5, enableQueryDiversification |-> TRUE,
     maxQueriesPerSearch |-> 5, domainSpecificOptimization |-> TRUE]

BaseQueries ==
    { <<"test", "query">>, <<"impact", "study">>, <<"how", "method">>,
      <<"what", "result", "?">> }

\* The section argument; "" stands for a call without one.
StrategySections == {"", "technology", "health", "history"}

\* The contexts addContext picks one of at random.
Contexts == {"implications", "applications", "challenges", "opportunities",
             "trends"}

\* query.toLowerCase().includes(w), for either of two words
Includes(q, w1, w2) == \E i \in DOMAIN q : q[i] \in {w1, w2}

\* selectBestKeyword: keywords[0] of the category
selectBestKeyword(category) ==
    CASE category = "academic"    -> "academic"
      [] category = "methodology" -> "methodology"

enhanceQueryWithKeywords(q, category) ==
    LET selectedKeyword == selectBestKeyword(category)
    IN  IF Includes(q, "how", "what") THEN <<selectedKeyword, "on">> \o q
        ELSE IF Includes(q, "impact", "effect") THEN q \o <<selectedKeyword>>
        ELSE <<selectedKeyword>> \o q

\* optimizeForDomain: the first keyword of the domain the section names is
\* put in front, when the section names one.
optimizeForDomain(q, section) ==
    CASE section = "technology" -> <<"AI">> \o q
      [] section = "health"     -> <<"medical">> \o q
      [] OTHER                  -> q

\* filterByTimeRange; the last word stands for `${startYear}-${currentYear}`.
filterByTimeRange(q, years) ==
    <<"recent">> \o q \o << "last-" \o ToString(years) >>

\* replaceSynonyms
Synonym(w) ==
    CASE w = "impact"    -> "effect"
      [] w = "influence" -> "affect"
      [] w = "method"    -> "approach"
      [] w = "result"    -> "outcome"
      [] w = "study"     -> "research"
      [] w = "analysis"  -> "examination"
      [] OTHER           -> w

replaceSynonyms(q) == [i \in DOMAIN q |-> Synonym(q[i])]

convertToQuestion(q) ==
    IF \E i \in DOMAIN q : q[i] = "?" THEN q
    ELSE IF Includes(q, "impact", "effect")
         THEN <<"What", "is", "the">> \o q \o <<"?">>
    ELSE IF Includes(q, "method", "approach")
         THEN <<"How", "does">> \o q \o <<"work", "?">>
    ELSE <<"What", "are", "the", "key", "aspects", "of">> \o q \o <<"?">>

addContext(q, randomContext) == q \o <<randomContext>>

\* Array.prototype.slice(0, n)
slice_OneMore(s, n) ==
    IF n >= 0 THEN SubSeq(s, 1, Min(n + 1, Len(s)))
    ELSE SubSeq(s, 1, Len(s) + n + 1)

slice(s, n) ==
    IF n >= 0 THEN SubSeq(s, 1, Min(n, Len(s)))
    ELSE SubSeq(s, 1, Len(s) + n)

diversifyQueries(q, randomContext) ==
    LET synonymQuery  == replaceSynonyms(q)
        questionQuery == convertToQuestion(q)
        contextQuery  == addContext(q, randomContext)
        diversified ==
            (IF synonymQuery # q THEN <<synonymQuery>> ELSE <<>>)
              \o (IF questionQuery # q THEN <<questionQuery>> ELSE <<>>)
              \o (IF contextQuery # q THEN <<contextQuery>> ELSE <<>>)
    IN  SubSeq(diversified, 1, Min(2, Len(diversified)))

SearchQuery(q, enhanced, priority, type) ==
    [original |-> q, enhanced |-> enhanced, priority |-> priority,
     type |-> type]

\* queries.sort((a, b) => b.priority - a.priority)
SortByPriority_Unsorted(queries) == queries

SortByPriority(queries) ==
    SortBy(queries, [i \in DOMAIN queries |-> 0 - queries[i].priority])

\* generateAcademicQueries
generateAcademicQueries(cfg, q, section, randomContext) ==
    LET general == << SearchQuery(q, q, 100, "general") >>
        academic ==
            IF cfg.enableAcademicKeywords
            THEN << SearchQuery(q, enhanceQueryWithKeywords(q, "academic"),
                                90, "academic"),
                    SearchQuery(q, enhanceQueryWithKeywords(q, "methodology"),
                                80, "academic") >>
            ELSE <<>>
        domain ==
            IF /\ cfg.domainSpecificOptimization
               /\ section # ""
               /\ optimizeForDomain(q, section) # q
            THEN << SearchQuery(q, optimizeForDomain(q, section),
                                85, "specific") >>
            ELSE <<>>
        time ==
            IF cfg.enableTimeRangeFilter
            THEN << SearchQuery(q, filterByTimeRange(q, cfg.timeRangeYears),
                                75, "academic") >>
            ELSE <<>>
        diversified == diversifyQueries(q, randomContext)
        diverse ==
            IF cfg.enableQueryDiversification
            THEN [i \in DOMAIN diversified |->
                    SearchQuery(q, diversified[i], 60 - (i - 1) * 10,
                                "general")]
            ELSE <<>>
    IN  slice(SortByPriority(general \o academic \o domain \o time \o diverse),
              cfg.maxQueriesPerSearch)

\* generateSearchStrategy: the queries and their number.
generateSearchStrategy(cfg, q, section, randomContext) ==
    LET queries == generateAcademicQueries(cfg, q, section, randomContext)
    IN  [queries |-> queries, totalQueries |-> Len(queries)]

\* No call of generateSearchStrategy has been made yet.
NoStrategyCall ==
    [base |-> <<>>, section |-> "", max |-> 0, updated |-> FALSE,
     result |-> [queries |-> <<>>, totalQueries |-> 0]]

\* The partial configs updateConfig is called with: one switch, or a number
\* of queries (a positive count), or the two fields the configuration test
\* sets together.
ConfigUpdates ==
    { [enableAcademicKeywords |-> b] : b \in BOOLEAN }
      \cup { [enableTimeRangeFilter |-> b] : b \in BOOLEAN }
      \cup { [enableQueryDiversification |-> b] : b \in BOOLEAN }
      \cup { [domainSpecificOptimization |-> b] : b \in BOOLEAN }
      \cup { [maxQueriesPerSearch |-> m] : m \in 1..MaxQueries }
      \cup { [enableAcademicKeywords |-> FALSE, maxQueriesPerSearch |-> 3] }

\* { ...this.config, ...newConfig }
updateConfig(cfg, newConfig) ==
    [f \in DOMAIN cfg |->
        IF f \in DOMAIN newConfig THEN newConfig[f] ELSE cfg[f]]

InitStrategy ==
    /\ strategyConfig = DefaultStrategyConfig
    /\ strategyCall = NoStrategyCall
    /\ configUpdated = FALSE
    /\ nStrategyOps = 0

GenerateSearchStrategy(q, section, randomContext) ==
    /\ nStrategyOps < MaxStrategyOps
    /\ strategyCall' =
          [base |-> q, section |-> section,
           max |-> strategyConfig.maxQueriesPerSearch,
           updated |-> configUpdated,
           result |-> generateSearchStrategy(strategyConfig, q, section,
                                             randomContext)]
    /\ nStrategyOps' = nStrategyOps + 1
    /\ UNCHANGED <<strategyConfig, configUpdated>>
    /\ UNCHANGED <<execVars, citeVars, outlineVars, intervalVars, synthVars>>

UpdateConfig(newConfig) ==
    /\ nStrategyOps < MaxStrategyOps
    /\ strategyConfig' = updateConfig(strategyConfig, newConfig)
    /\ configUpdated' = TRUE
    /\ nStrategyOps' = nStrategyOps + 1
    /\ UNCHANGED strategyCall
    /\ UNCHANGED <<execVars, citeVars, outlineVars, intervalVars, synthVars>>

\* ========================================================================
\* Specifications
\* ========================================================================
\* Each specification starts its own component and leaves the others as
\* constructed.
InitSpecExec ==
    /\ InitExec /\ InitCite /\ InitOutline /\ maxDebateRounds = 1 /\ InitInterval
    /\ academicOutline = <<>> /\ InitSynth
    /\ InitStrategy

NextExec ==
    \/ \E m \in BOOLEAN, s \in BOOLEAN : Call(m, s)
    \/ \E r \in Replies : AttemptSucceeds(r)
    \/ \E r \in Replies, j \in Jitters : AttemptFails(r, j)
    \/ AttemptTimesOut
    \/ UserAbortsInFlight
    \/ UserAbortsInBackoff
    \/ BackoffEnds

SpecExec == InitSpecExec /\ [][NextExec]_vars

\* Two logical requests share the pool: this call, and another whose
\* attempts draw credentials in between.
NextPool ==
    \/ \E s \in BOOLEAN : Call(TRUE, s)
    \/ \E r \in { x \in Replies : x.kind = "http" /\ x.status \in {200, 503} } :
          AttemptSucceeds(r)
    \/ \E r \in { x \in Replies : x.kind = "http" /\ x.status \in {200, 503} },
          j \in Jitters : AttemptFails(r, j)
    \/ AttemptTimesOut
    \/ BackoffEnds
    \/ OtherRequestDraws

SpecPool == InitSpecExec /\ [][NextPool]_vars

InitSpecCite ==
    /\ InitExec /\ keys = 1
    /\ InitCite
    /\ InitOutline /\ maxDebateRounds = 1
    /\ InitInterval
    /\ academicOutline = <<>> /\ InitSynth
    /\ InitStrategy

NextCite ==
    \/ \E u \in Urls : AddCitation(u)
    \/ \E ids \in IdLists : RecordCitationUsage(ids)
    \/ \E id \in 1..(MaxOps + 1) : GenerateInTextCitation(id)
    \/ \E ids \in IdLists : GenerateMultipleInTextCitations(ids)
    \/ \E text \in MarkTexts, cs \in CitationLists :
          InsertCitationMarks(text, cs)
    \/ Clear

SpecCite == InitSpecCite /\ [][NextCite]_vars

\* The registry after the citations of urls were added, in order.
RECURSIVE AddAll(_, _, _)
AddAll(cits, counter, urls) ==
    IF urls = <<>> THEN [citations |-> cits, counter |-> counter]
    ELSE LET r == addCitation(cits, counter, Head(urls))
         IN  AddAll(r.citations, r.counter, Tail(urls))

RECURSIVE SeqsUpTo(_, _)
SeqsUpTo(S, n) ==
    IF n = 0 THEN { <<>> }
    ELSE LET shorter == SeqsUpTo(S, n - 1)
         IN  shorter \cup { Append(q, x) : q \in shorter, x \in S }

ThreeUrls ==
    << [NoUrl EXCEPT !.pathname = <<"/b">>],
       [NoUrl EXCEPT !.hash = <<"#top">>],
       [NoUrl EXCEPT !.pathname = <<>>] >>

\* A mark is asked for: the id list is any list of ids, the registry is new
\* or holds three citations.
InitSpecMark ==
    /\ InitExec /\ keys = 1
    /\ InitOutline /\ maxDebateRounds = 1
    /\ InitInterval
    /\ academicOutline = <<>> /\ InitSynth
    /\ InitStrategy
    /\ \E n \in {0, 3} :
          LET r == AddAll(<<>>, 1, SubSeq(ThreeUrls, 1, n))
          IN  /\ citations = r.citations
              /\ citationCounter = r.counter
              /\ prevCitations = r.citations
    /\ lastCall = NoCall
    /\ firstSeen = <<>>
    /\ usedIds = {}
    /\ argIds \in SeqsUpTo(1..MaxId, MaxLen)
    /\ nOps = 0

NextMark ==
    /\ lastCall.op = "none"
    /\ GenerateMultipleInTextCitations(argIds)

SpecMark == InitSpecMark /\ [][NextMark]_vars

InitSpecOutline ==
    /\ InitExec /\ keys = 1 /\ InitCite /\ InitOutline /\ InitInterval
    /\ academicOutline = <<>> /\ InitSynth
    /\ InitStrategy

NextOutline ==
    \/ \E s \in BOOLEAN, a \in BOOLEAN, o \in BOOLEAN : StartOutline(s, a, o)
    \/ \E r \in TurnReplies : TurnReturns(r)
    \/ RetryWaitEnds
    \/ \E e \in {"AllKeysFailedError", "AbortError"} : CallThrows(e)
    \/ \E t \in FinalTexts : FallbackReturns(t)
    \/ AbortOutline

SpecOutline == InitSpecOutline /\ [][NextOutline]_vars

\* The call the engine awaits settles: it returns or it throws.
CallSettles ==
    \/ \E r \in TurnReplies : TurnReturns(r)
    \/ \E e \in {"AllKeysFailedError", "AbortError"} : CallThrows(e)
    \/ \E t \in FinalTexts : FallbackReturns(t)

\* The engine with every awaited call settling and every timer firing.
SpecOutlineFair ==
    /\ InitSpecOutline
    /\ [][NextOutline]_vars
    /\ WF_vars(CallSettles)
    /\ WF_vars(RetryWaitEnds)

InitSpecInterval ==
    /\ InitExec /\ keys = 1
    /\ InitCite
    /\ InitOutline /\ maxDebateRounds = 1
    /\ InitInterval
    /\ academicOutline = <<>> /\ InitSynth
    /\ InitStrategy

NextInterval ==
    \/ \E d \in ClockSteps : Tick(d)
    \/ \E mode \in ResearchModes, config \in IntervalConfigs :
          CalculateDelay(mode, config)
    \/ Record429Error
    \/ ClearErrorHistory

SpecInterval == InitSpecInterval /\ [][NextInterval]_vars

InitSpecSynth ==
    /\ InitExec /\ keys = 1
    /\ InitCite
    /\ InitOutline /\ maxDebateRounds = 1
    /\ InitInterval
    /\ academicOutline \in Outlines /\ InitSynth
    /\ InitStrategy

\* The driver on every outline, called without citations.
NextSynth ==
    \/ \E s \in BOOLEAN, a \in BOOLEAN : StartSynthesis(<<>>, s, a)
    \/ \E r \in PlainResponses : ChapterReturns(r)
    \/ \E e \in {"AllKeysFailedError", "AbortError"} : SynthesisThrows(e)
    \/ ChapterPauseEnds
    \/ \E r \in PlainResponses : WholeReturns(r)
    \/ AbortSynthesis

SpecSynth == InitSpecSynth /\ [][NextSynth]_vars

\* The driver with citations, in a process where another session may start
\* its synthesis meanwhile.
SessionOutlines ==
    { <<>>, <<"a">>, <<"#", " ", "a", "\n", "#", " ", "a">>,
      <<"a", "\n", "#", " ", "a", "\n", "#", "#", " ", "a">> }

\* The citation lists of the sessions: lists of distinct sources.
SessionCitationLists ==
    { cs \in CitationLists :
        Len(addCitations(<<>>, 1, cs).citations) = Len(cs) }

InitSpecSessions ==
    /\ InitExec /\ keys = 1
    /\ InitCite
    /\ InitOutline /\ maxDebateRounds = 1
    /\ InitInterval
    /\ academicOutline \in SessionOutlines /\ InitSynth
    /\ InitStrategy

NextSessions ==
    \/ \E cs \in SessionCitationLists, s \in BOOLEAN, a \in BOOLEAN :
          StartSynthesis(cs, s, a)
    \/ \E r \in ChapterResponses : ChapterReturns(r)
    \/ \E e \in {"AllKeysFailedError", "AbortError"} : SynthesisThrows(e)
    \/ ChapterPauseEnds
    \/ \E r \in ChapterResponses : WholeReturns(r)
    \/ AbortSynthesis
    \/ \E cs \in SessionCitationLists : OtherSessionStarts(cs)

SpecSessions == InitSpecSessions /\ [][NextSessions]_vars

InitSpecStrategy ==
    /\ InitExec /\ keys = 1
    /\ InitCite
    /\ InitOutline /\ maxDebateRounds = 1
    /\ InitInterval
    /\ academicOutline = <<>> /\ InitSynth
    /\ InitStrategy

NextStrategy ==
    \/ \E q \in BaseQueries, section \in StrategySections, c \in Contexts :
          GenerateSearchStrategy(q, section, c)
    \/ \E newConfig \in ConfigUpdates : UpdateConfig(newConfig)

SpecStrategy == InitSpecStrategy /\ [][NextStrategy]_vars

\* ========================================================================
\* Properties
\* ========================================================================

\* ---------------------------------------------------------- Execution Layer

\* C1: with a pool of k credentials and 2 tries per credential, a call whose
\* every attempt fails with a server error sends exactly 2*k requests, never
\* more, and then throws the aggregate error, which names the last error.
C1_ServerErrorsExhaustBudget ==
    /\ requests <= 2 * keys
    /\ (outcome = "exhausted") => (finalError = lastError)
    /\ (/\ pc = "done"
        /\ requests > 0
        /\ outcome # "success"
        /\ failClasses = {"server_error"})
       => /\ outcome = "exhausted"
          /\ requests = 2 * keys
          /\ finalError = "server_error"

C1_Witness ==
    /\ keys = 2
    /\ pc = "done"
    /\ outcome = "exhausted"
    /\ failClasses = {"server_error"}
    /\ requests = 4

\* C2: when the caller's signal fires while an attempt is in flight, the call
\* ends at once with the cancellation error, and no request is sent after
\* that, whatever is left of the attempt budget.
C2_CancelInFlightStops ==
    abortInFlight =>
        /\ pc = "done"
        /\ outcome = "cancelled"
        /\ requests = requestsAtAbort

C2_Witness ==
    /\ abortInFlight
    /\ outcome = "cancelled"
    /\ keys = 2
    /\ requests = 2
    /\ requests < maxAttempts(keys)

\* C3 (as claimed): once the caller's signal is set, no request is sent: an
\* attempt about to start with the signal set sends nothing.
C3_NoRequestOnceCancelled ==
    [][aborted => requests' = requests]_vars

\* C4 (as claimed): every call that passes the checks of its arguments ends
\* with a response whose text is not empty, with the cancellation error or
\* with the aggregate error, and with nothing else.
C4_ThreeOutcomes ==
    (pc = "done" /\ outcome \notin {"no_keys", "invalid_args"}) =>
        /\ outcome \in {"success", "cancelled", "exhausted"}
        /\ (outcome = "success") => (trim(resultText) # <<>>)

\* --------------------------------------------------------- Citation Registry

\* C5: the registry holds one record for each distinct normalized URL added,
\* the ids are 1, 2, 3, ... in the order the URLs were first seen, and an
\* addCitation of a URL seen before returns the id it got the first time.
C5_OneIdPerNormalizedUrl ==
    /\ Len(citations) = Len(firstSeen)
    /\ citationCounter = Len(citations) + 1
    /\ \A i \in DOMAIN citations : citations[i].id = i
    /\ \A i, j \in DOMAIN citations :
          (citations[i].key = citations[j].key) => (i = j)
    /\ (lastCall.op = "addCitation") =>
          /\ lastCall.ret \in DOMAIN firstSeen
          /\ firstSeen[lastCall.ret] = NormalForm(lastCall.url)
          /\ citations[lastCall.ret].key = getCitationKey(lastCall.url)

C5_Witness ==
    /\ lastCall.op = "addCitation"
    /\ Len(citations) = 3
    /\ lastCall.ret = 1
    /\ prevCitations = citations
    /\ lastCall.url.search # <<>>

\* The maximal runs of consecutive numbers of a set, in ascending order.
RunsOf(S) ==
    LET runs == { <<a, b>> \in S \X S :
                    /\ a <= b
                    /\ \A x \in a..b : x \in S
                    /\ (a - 1) \notin S
                    /\ (b + 1) \notin S }
    IN  [p \in 1..Cardinality(runs) |->
            CHOOSE r \in runs :
                Cardinality({ q \in runs : q[1] < r[1] }) = p - 1]

\* C6: for a non-empty list of distinct ids in any order the mark lists the
\* ids in ascending order, each maximal run of consecutive ids as one range:
\* the items are ascending, disjoint and not adjacent, cover exactly the ids
\* given, and do not depend on the order of the list.
C6_MarkMergesRuns ==
    (/\ lastCall.op = "generateMultipleInTextCitations"
     /\ lastCall.ids # <<>>
     /\ Cardinality(Range(lastCall.ids)) = Len(lastCall.ids))
    => LET items == lastCall.items
       IN  /\ \A i \in DOMAIN items : items[i][1] <= items[i][2]
           /\ \A i \in DOMAIN items :
                (i < Len(items)) => (items[i][2] + 1 < items[i + 1][1])
           /\ UNION { items[i][1]..items[i][2] : i \in DOMAIN items }
                = Range(lastCall.ids)
           /\ items = RunsOf(Range(lastCall.ids))
           /\ lastCall.mark = "[" \o Join(items) \o "]"
           /\ (Range(lastCall.ids) = {1, 2, 3, 5}) => (lastCall.mark = "[1-3, 5]")
           /\ (lastCall.ids = <<7>>) => (lastCall.mark = "[7]")

C6_Witness ==
    /\ lastCall.op = "generateMultipleInTextCitations"
    /\ lastCall.ids = <<5, 2, 1, 3>>
    /\ lastCall.mark = "[1-3, 5]"

\* How often id occurs in ids.
Occurrences(ids, id) == Cardinality({ i \in DOMAIN ids : ids[i] = id })

\* C7 (amended): recordCitationUsage(ids) raises the usage count of each
\* stored record by the number of times its id occurs in ids (by 1 when the
\* ids are distinct); an id no record has is ignored: no record is added,
\* removed or renumbered, and no other count changes.
C7_UsagePerOccurrence ==
    (lastCall.op = "recordCitationUsage") =>
        /\ Len(citations) = Len(prevCitations)
        /\ \A i \in DOMAIN citations :
              /\ citations[i].key = prevCitations[i].key
              /\ citations[i].id = prevCitations[i].id
              /\ citations[i].timesCited =
                    prevCitations[i].timesCited
                        + Occurrences(lastCall.ids, citations[i].id)

\* C7 (as claimed): each record referenced is raised by exactly 1.
C7_UsageExactlyOne ==
    (lastCall.op = "recordCitationUsage") =>
        /\ Len(citations) = Len(prevCitations)
        /\ \A i \in DOMAIN citations :
              citations[i].timesCited =
                    prevCitations[i].timesCited
                        + (IF citations[i].id \in Range(lastCall.ids)
                           THEN 1 ELSE 0)

C7_Witness ==
    /\ lastCall.op = "recordCitationUsage"
    /\ lastCall.ids = <<2, 4>>
    /\ Len(citations) = 2
    /\ citations[2].timesCited = prevCitations[2].timesCited + 1
    /\ citations[1] = prevCitations[1]

IdsOf(cits) == [i \in DOMAIN cits |-> cits[i].id]

Ascending(ns) == \A i, j \in DOMAIN ns : (i < j) => (ns[i] < ns[j])

\* C8: the cited and the uncited citations are disjoint and together are all
\* the citations, each list in ascending id order; the cited ones are those
\* usage was recorded for, the uncited ones the rest.
C8_CitedUncitedPartition ==
    LET all == getAllCitations(citations)
        cited == getCitedCitations(citations)
        uncited == getUncitedCitations(citations)
    IN  /\ Range(cited) \cap Range(uncited) = {}
        /\ Range(cited) \cup Range(uncited) = Range(all)
        /\ Range(all) = Range(citations)
        /\ Len(cited) + Len(uncited) = Len(all)
        /\ Len(all) = Len(citations)
        /\ Ascending(IdsOf(all))
        /\ Ascending(IdsOf(cited))
        /\ Ascending(IdsOf(uncited))
        /\ Range(IdsOf(cited)) = usedIds
        /\ Range(IdsOf(uncited)) = StoredIds(citations) \ usedIds

C8_Witness ==
    /\ Len(citations) = 3
    /\ usedIds = {1, 3}
    /\ IdsOf(getCitedCitations(citations)) = <<1, 3>>
    /\ IdsOf(getUncitedCitations(citations)) = <<2>>

\* -------------------------------------------------------- Negotiation Engine

Finalizing(t) ==
    t.accepted /\ t.action = "finalize_outline" /\ t.artifact # ""

\* C9: a turn accepted with action finalize and an artifact ends the
\* negotiation with that artifact: it is the last turn issued, no final
\* call is made; with Alpha always continuing and Beta finalizing on its
\* second turn the engine ends after 4 turns with Beta's artifact.
C9_FinalizeStops ==
    /\ \A i \in DOMAIN turnLog :
          Finalizing(turnLog[i]) =>
              /\ i = Len(turnLog)
              /\ oPc = "done"
              /\ oOutcome = "finalized"
              /\ oResult = turnLog[i].artifact
              /\ fallbackCalls = 0
    /\ (oOutcome = "finalized") =>
          (turnLog # <<>> /\ Finalizing(turnLog[Len(turnLog)]))
    /\ (/\ Len(turnLog) >= 4
        /\ \A i \in 1..4 : turnLog[i].accepted
        /\ \A i \in 1..3 : ~Finalizing(turnLog[i])
        /\ Finalizing(turnLog[4]))
       => /\ Len(turnLog) = 4
          /\ turnLog[4].persona = "Beta"
          /\ turnLog[2].persona = "Beta"
          /\ oResult = turnLog[4].artifact

C9_Witness ==
    /\ maxDebateRounds = 4
    /\ Len(turnLog) = 4
    /\ \A i \in 1..3 : turnLog[i].accepted /\ turnLog[i].action = "continue_debate"
    /\ Finalizing(turnLog[4])
    /\ turnLog[4].persona = "Beta"
    /\ oPc = "done"
    /\ oResult = "outline2"

AcceptedTurns == SelectSeq(turnLog, LAMBDA t : t.accepted)

\* C10: the observer is called once for each accepted turn, the finalizing
\* one included, in turn order and with the persona of that turn; it is not
\* called for a skipped turn nor for the final call.
C10_ObserverOncePerAcceptedTurn ==
    hasObserver =>
        /\ Len(observed) = Len(AcceptedTurns)
        /\ \A i \in DOMAIN observed :
              observed[i].persona = AcceptedTurns[i].persona
        /\ observed = currentConversation

C10_Witness ==
    /\ hasObserver
    /\ oOutcome = "fallback"
    /\ Len(observed) = 2
    /\ Len(turnLog) = 3
    /\ ~turnLog[1].accepted

NeverFinalizes == \A i \in DOMAIN turnLog : ~Finalizing(turnLog[i])

\* The engine ended by an error: the caller's signal was seen set, or a
\* generateContent call threw.
EndedByError ==
    oOutcome \in {"aborted", "AbortError", "AllKeysFailedError"}

\* C11: with a budget of N rounds and turns that never finalize (accepted
\* without finalize, or never valid), the engine does not end by itself
\* before the budget is used: it issues at most N turns (exactly N when
\* every turn is accepted), then the final call, once, and what that call
\* returns (trimmed) is the result.
C11_ExhaustionFallsBack ==
    /\ Len(turnLog) <= maxDebateRounds
    /\ fallbackCalls <= 1
    /\ (fallbackCalls = 1) =>
          /\ NeverFinalizes
          /\ debateTurns >= maxDebateRounds
          /\ (\A i \in DOMAIN turnLog : turnLog[i].accepted)
                => Len(turnLog) = maxDebateRounds
    /\ (oPc = "done" /\ NeverFinalizes /\ ~EndedByError) =>
          /\ oOutcome = "fallback"
          /\ fallbackCalls = 1
          /\ oResult = Concat(trim(finalResponse))

C11_Witness ==
    /\ maxDebateRounds = 3
    /\ oPc = "done"
    /\ oOutcome = "fallback"
    /\ Len(turnLog) = 2
    /\ turnLog[1].accepted /\ turnLog[1].action = "finalize_outline"
    /\ ~turnLog[2].accepted
    /\ turnCalls = 3
    /\ fallbackCalls = 1
    /\ finalResponse = <<" ", "o", "k">>
    /\ oResult = "ok"

\* C12: when the engine sees the caller's signal set before a turn, it ends
\* with an error of the cancellation class, the AbortError that the
\* Execution Layer rethrows for a user abort.
C12_CancelledIsUserCancelled ==
    (oPc = "done" /\ oOutcome = "aborted") =>
        ErrorOf(oOutcome).name = ErrorOf("AbortError").name

\* The part of C12 on calls: with the signal set no call is issued.
NoCallOnceCancelled ==
    [][oAborted => (turnCalls' = turnCalls /\ fallbackCalls' = fallbackCalls)]_vars

\* C13: the final call is issued once, when the budget is used up, and no
\* call follows it; when it gives no content (the Execution Layer throws
\* after its attempts) the engine fails with that error and returns no
\* outline, otherwise the text returned, trimmed, is the outline.
C13_FallbackOnce ==
    /\ [](/\ fallbackCalls <= 1
          /\ (oPc = "fallback") => (fallbackCalls = 1)
          /\ (fallbackCalls = 1) => (debateTurns >= maxDebateRounds)
          /\ (oPc = "done" /\ fallbackCalls = 1) =>
                \/ /\ oOutcome = "fallback"
                   /\ oResult = Concat(trim(finalResponse))
                   /\ oResult # ""
                \/ /\ oOutcome \in {"AllKeysFailedError", "AbortError"}
                   /\ oResult = "")
    /\ [][(fallbackCalls = 1) =>
            (turnCalls' = turnCalls /\ fallbackCalls' = fallbackCalls)]_vars

C13_Witness ==
    /\ oPc = "done"
    /\ fallbackCalls = 1
    /\ oOutcome = "AllKeysFailedError"
    /\ ~oAborted
    /\ turnCalls = maxDebateRounds

\* ---------------------------------------------------- Rate-Adaptation Tracker

\* The events recorded that lie inside the window at time t.
InWindow(t) ==
    Cardinality({ i \in DOMAIN allRecorded : allRecorded[i] > t - fiveMinutes })

\* The delay for a product given in hundredths of a millisecond: the
\* product when it is below the maximum, the maximum otherwise, to the
\* nearest millisecond.
IsDelayFor(d, product100) ==
    IF product100 >= maxDelay * 100
    THEN d = maxDelay
    ELSE /\ 100 * d - product100 <= 50
         /\ product100 - 100 * d < 50

\* C14: calculateDelay returns at most 20000 ms for every mode,
\* configuration and history, and what it returns is
\* min(20000, baseDelayMs * mode multiplier * e) in whole milliseconds,
\* where e is the error multiplier when the escalation applies and 1
\* otherwise.
C14_DelayNeverAboveMax ==
    /\ \A mode \in ResearchModes, config \in IntervalConfigs :
          calculateDelay(mode, config, errorHistory, now) <= maxDelay
    /\ (lastDelay # NoDelay) =>
          LET c == lastDelay.config
              e == IF c.dynamicAdjustment /\ lastDelay.recent >= c.errorThreshold
                   THEN c.errorMultiplier ELSE 10
          IN  /\ lastDelay.result <= maxDelay
              /\ IsDelayFor(lastDelay.result,
                            c.baseDelayMs * ModeMultiplier(lastDelay.mode, c) * e)

C14_Witness ==
    /\ lastDelay.mode = "DeepDive"
    /\ lastDelay.config.baseDelayMs = 18000
    /\ lastDelay.recent = 0
    /\ lastDelay.result = maxDelay
    /\ lastDelay.config.baseDelayMs * lastDelay.config.deepDiveMultiplier
          > maxDelay * 10

C15_BelowThreshold ==
    /\ lastDelay.mode = "Fast"
    /\ lastDelay.config.baseDelayMs = 1001
    /\ Len(allRecorded) = 5
    /\ InWindow(now) = 2
    /\ errorHistory = allRecorded
    /\ lastDelay.result = 1001

LastN(s, n) ==
    IF Len(s) <= n THEN s ELSE SubSeq(s, Len(s) - n + 1, Len(s))

\* C16: the history holds the timestamps recorded, the most recent 10 at
\* most, in the order they were recorded: the oldest goes first.
C16_HistoryBounded ==
    /\ Len(errorHistory) <= 10
    /\ errorHistory = LastN(allRecorded, 10)

C16_Witness ==
    /\ Len(allRecorded) = 11
    /\ allRecorded[1] < allRecorded[2]
    /\ Len(errorHistory) = 10
    /\ errorHistory[1] = allRecorded[2]
    /\ errorHistory[10] = now

\* The multiplier configured for a mode, in tenths: the quick one for the
\* fast modes.
ConfiguredMultiplier(mode, config) ==
    CASE mode = "DeepDive" -> config.deepDiveMultiplier
      [] mode = "Balanced" -> config.balancedMultiplier
      [] mode \in {"Fast", "UltraFast"} -> config.quickMultiplier

\* C17: without escalation the delay of a call is
\* min(20000, baseDelayMs * the multiplier configured for its mode).
C17_ModeMultiplierOfDeclaredMode ==
    (lastDelay # NoDelay
        /\ ~Escalates(lastDelay.config, errorHistory, now)) =>
        IsDelayFor(lastDelay.result,
                   lastDelay.config.baseDelayMs
                     * ConfiguredMultiplier(lastDelay.mode, lastDelay.config)
                     * 10)

\* ---------------------------------------------------------- Citation Registry

\* C18: clear() leaves no record and the counter at 1: getAllCitations() is
\* empty, the citation added next gets id 1 with a usage count of 0, and a
\* count above 0 always comes from usage recorded since the last clear.
C18_ClearResets ==
    /\ []((lastCall.op = "clear") =>
             /\ citations = <<>>
             /\ citationCounter = 1
             /\ getAllCitations(citations) = <<>>
             /\ getCitedCitations(citations) = <<>>)
    /\ [](\A i \in DOMAIN citations :
             (citations[i].timesCited > 0) => (citations[i].id \in usedIds))
    /\ [][(lastCall.op = "clear" /\ lastCall'.op = "addCitation") =>
             /\ lastCall'.ret = 1
             /\ IdsOf(getAllCitations(citations')) = <<1>>
             /\ citations'[1].timesCited = 0]_vars

C18_Witness ==
    /\ lastCall.op = "clear"
    /\ Len(prevCitations) = 2
    /\ prevCitations[2].timesCited > 0
    /\ citations = <<>>
    /\ citationCounter = 1

\* C19: in a step that is not clear(), every stored record keeps its place,
\* key and id, its usage count does not go down, and a record that is new
\* has a count of 0 unless the same call recorded usage for it; adding a
\* URL that is registered already changes no record.
C19_UsageNeverDecreases ==
    [][(lastCall'.op # "clear") =>
          /\ Len(citations') >= Len(citations)
          /\ \A i \in DOMAIN citations :
                /\ citations'[i].id = citations[i].id
                /\ citations'[i].key = citations[i].key
                /\ citations'[i].timesCited >= citations[i].timesCited
          /\ \A i \in DOMAIN citations' :
                (i \notin DOMAIN citations /\ lastCall'.op = "addCitation")
                    => citations'[i].timesCited = 0
          /\ (/\ lastCall'.op = "addCitation"
              /\ HasKey(citations, getCitationKey(lastCall'.url)))
                => /\ citations' = citations
                   /\ lastCall'.ret
                        = GetByKey(citations, getCitationKey(lastCall'.url)).id
      ]_vars

C19_Witness ==
    /\ lastCall.op = "addCitation"
    /\ Len(citations) = 2
    /\ citations = prevCitations
    /\ lastCall.ret = 1
    /\ citations[1].timesCited = 2

ServerSuggested ==
    /\ lastError = "rate_limited"
    /\ lastReply.retryKind = "seconds"

RetryableClasses ==
    {"rate_limited", "server_error", "network_error", "empty_response",
     "malformed_response", "timeout"}

\* C28: after a failed attempt of a retryable class the next request is
\* sent only when a backoff sleep has ended, never straight from the
\* failed attempt.
C28_BackoffBeforeEveryRetry ==
    [][(requests' = requests + 1 /\ lastError' \in RetryableClasses)
          => (pc = "backoff" /\ delayMs >= 3000)]_vars

C30_SleepBounded ==
    (pc = "backoff") => (delayMs <= maxDelay)

\* -------------------------------------------------------- Negotiation Engine

\* C23: each turn issued, accepted or skipped, takes one unit of the
\* budget: while a turn is in progress debateTurns is the number of turns
\* issued, and the final call comes after exactly maxDebateRounds turns.
C23_OneUnitPerTurn ==
    /\ (oPc \in {"awaiting", "retryWait"}) => (debateTurns = Len(turnLog) + 1)
    /\ (fallbackCalls = 1) => (Len(turnLog) = maxDebateRounds)

\* C24: the first turn is Alpha's and each turn after it is issued to the
\* persona that did not have the turn before, accepted or skipped; the turn
\* in progress is for the persona that did not have the last turn.
C24_PersonasAlternate ==
    /\ (turnLog # <<>>) => (turnLog[1].persona = "Alpha")
    /\ \A i \in DOMAIN turnLog :
          (i > 1) => (turnLog[i].persona # turnLog[i - 1].persona)
    /\ (oPc \in {"awaiting", "retryWait"}) =>
          IF turnLog = <<>>
          THEN nextPersona = "Alpha"
          ELSE nextPersona # turnLog[Len(turnLog)].persona

C24_Witness ==
    /\ Len(turnLog) = 3
    /\ turnLog[1].accepted
    /\ ~turnLog[2].accepted
    /\ turnLog[2].persona = "Beta"
    /\ turnLog[3].persona = "Alpha"
    /\ turnLog[3].accepted
    /\ oPc = "fallback"
    /\ nextPersona = "Beta"

\* C25: a turn is skipped only when its first attempt and two retries have
\* failed.
C25_SkippedAfterTwoRetries ==
    [][(/\ Len(turnLog') = Len(turnLog) + 1
        /\ ~turnLog'[Len(turnLog')].accepted)
          => (turnAttempt = 1 + 2)]_vars

\* C26: once started the engine ends, whatever the turns return: finalized,
\* with the fallback outline, or with an error; and it makes at most
\* maxTurnRetries calls for each unit of the budget, and one final call.
C26_Terminates ==
    /\ [](/\ turnCalls <= maxTurnRetries * maxDebateRounds
          /\ fallbackCalls <= 1
          /\ debateTurns <= maxDebateRounds + 1)
    /\ (oPc # "idle") ~>
          (/\ oPc = "done"
           /\ oOutcome \in {"finalized", "fallback", "aborted", "AbortError",
                            "AllKeysFailedError"})

C26_Witness ==
    /\ oPc = "done"
    /\ oOutcome = "fallback"
    /\ maxDebateRounds = 3
    /\ turnCalls = maxTurnRetries * maxDebateRounds
    /\ Len(turnLog) = 3

\* --------------------------------------------------------- Synthesis Driver

\* The text of s without its whitespace.
Strip(s) == SelectSeq(s, LAMBDA c : ~IsSpace(c))

\* The texts of rs one after the other.
RECURSIVE Flatten(_)
Flatten(rs) == IF rs = <<>> THEN <<>> ELSE Head(rs) \o Flatten(Tail(rs))

\* r starts with a top-level or second-level heading mark.
StartsWithHeading(r) ==
    /\ r # <<>>
    /\ r[1] = "#"
    /\ \/ Len(r) = 1
       \/ IsSpace(r[2])
       \/ r[2] = "#" /\ (Len(r) = 2 \/ IsSpace(r[3]))

\* A line break of r is followed by a top-level or second-level heading.
HasHeadingBreak(r) ==
    \E i \in 1..(Len(r) - 2) :
        /\ r[i] = "\n"
        /\ r[i + 1] = "#"
        /\ \/ IsSpace(r[i + 2])
           \/ i + 3 <= Len(r) /\ r[i + 2] = "#" /\ IsSpace(r[i + 3])

\* The chunks one after the other, a blank line between two of them.
RECURSIVE ChunksInOrder(_, _)
ChunksInOrder(acc, chunks) ==
    IF chunks = <<>> THEN acc
    ELSE ChunksInOrder(acc \o "\n\n" \o Head(chunks), Tail(chunks))

\* C21: given an outline, the driver has at most one generation request in
\* flight; the requests made so far are, in outline order, the sections the
\* top-level and second-level headings cut the outline into (every request
\* after the first starts at such a heading, none runs across one, and
\* together they are the text of the outline up to some point); when the
\* driver returns, there is exactly one request per section and the document
\* is the returned chunks in that order, a blank line between them.
C21_OneRequestPerSectionInOrder ==
    /\ sInFlight \in {0, 1}
    /\ academicOutline # <<>> =>
        LET asked == Strip(Flatten(synthRequests))
            whole == Strip(academicOutline)
        IN  /\ wholeRequests = 0
            /\ \A i \in DOMAIN synthRequests :
                  /\ synthRequests[i] # <<>>
                  /\ ~HasHeadingBreak(synthRequests[i])
                  /\ i > 1 => StartsWithHeading(synthRequests[i])
            /\ Len(asked) <= Len(whole)
            /\ asked = SubSeq(whole, 1, Len(asked))
            /\ sOutcome \in {"", "ok"} =>
                  Len(synthRequests) = Len(generatedChapters) + sInFlight
            /\ sOutcome = "ok" =>
                  /\ asked = whole
                  /\ report = IF generatedChapters = <<>> THEN ""
                              ELSE ChunksInOrder(Head(generatedChapters),
                                                 Tail(generatedChapters))

C21_Witness ==
    /\ sOutcome = "ok"
    /\ Len(synthRequests) = 3
    /\ generatedChapters[1] = "x"
    /\ generatedChapters[2] = "y"
    /\ report = "x\n\ny\n\nx"

\* ---------------------------------------------------------- Search Strategy

\* C22: generateSearchStrategy returns at least one query and at most
\* maxQueriesPerSearch of them, whether the number is the default 5 or was
\* set through updateConfig; the priorities of the queries never increase
\* along the list, and the first query is the base query, unmodified.
C22_QueriesBoundedAndOrdered ==
    strategyCall # NoStrategyCall =>
        LET queries == strategyCall.result.queries
        IN  /\ Len(queries) >= 1
            /\ Len(queries) <= strategyCall.max
            /\ strategyCall.result.totalQueries = Len(queries)
            /\ ~strategyCall.updated => strategyCall.max = 5
            /\ \A i \in 1..(Len(queries) - 1) :
                  queries[i].priority >= queries[i + 1].priority
            /\ queries[1].enhanced = strategyCall.base
            /\ queries[1].original = strategyCall.base

C22_Witness ==
    /\ strategyCall.updated
    /\ strategyCall.max = 3
    /\ strategyCall.base = <<"test", "query">>
    /\ Len(strategyCall.result.queries) = 3
    /\ strategyCall.result.queries[3].priority = 60

\* C34: the signal is checked before each chapter.  Once the signal is set
\* no request for a chapter is issued any more; a check that finds it set
\* with a chapter left (at the start, or after the pause that follows a
\* chapter) ends the synthesis with AbortError; a synthesis that ended with
\* AbortError returned no document, and a document that is returned has a
\* chunk for every chapter.
C34_CancelCheckedBeforeEachChapter ==
    /\ [](sOutcome = "AbortError" => report = "")
    /\ [](sOutcome = "ok" /\ academicOutline # <<>> =>
            Len(generatedChapters) = Len(chapters))
    /\ [][/\ sAborted => synthRequests' = synthRequests
          /\ sAborted' => synthRequests' = synthRequests
          /\ (/\ sPc = "sleeping"
              /\ sPc' # "sleeping"
              /\ sAborted
              /\ chapterIdx < Len(chapters))
                => sPc' = "done" /\ sOutcome' = "AbortError"
          /\ (/\ sPc = "idle"
              /\ sPc' # "idle"
              /\ sAborted'
              /\ chapters' # <<>>)
                => sPc' = "done" /\ sOutcome' = "AbortError"]_vars

C34_Witness ==
    /\ sPc = "done"
    /\ sOutcome = "AbortError"
    /\ Len(chapters) = 3
    /\ Len(synthRequests) = 1
    /\ Len(generatedChapters) = 1
    /\ report = ""

C35_InvalidMarksOnlyWarn ==
    /\ sOutcome \in {"", "ok", "AbortError", "AllKeysFailedError", "Error"}
    /\ \A i \in DOMAIN validations :
          LET v == validations[i]
          IN  /\ v.isValid <=> v.cites \subseteq v.known
              /\ v.warned <=> ~v.isValid
              /\ v.chapter > 0 => v.chapter <= Len(generatedChapters)
    /\ (sOutcome = "ok" /\ academicOutline # <<>>) =>
          /\ Len(generatedChapters) = Len(chapters)
          /\ report = IF generatedChapters = <<>> THEN ""
                      ELSE ChunksInOrder(Head(generatedChapters),
                                         Tail(generatedChapters))
    /\ (/\ sPc = "done"
        /\ academicOutline = <<>>
        /\ validations # <<>>
        /\ validations[1].warned) => sOutcome = "ok" /\ report = "x"

C35_Witness ==
    /\ sOutcome = "ok"
    /\ Len(chapters) = 3
    /\ Len(validations) = 3
    /\ validations[2].warned
    /\ validations[2].cites = {1, 3}
    /\ validations[2].known = {1, 2}
    /\ ~validations[3].warned
    /\ report = "x\n\nx\n\ny"

\* C33: while a session's synthesis generates its chapters, every id the
\* registry gave to a citation of the session still resolves to that
\* citation, also when another session of the process starts its synthesis
\* meanwhile.
C33_SessionNumberingStable ==
    sPc \in {"generating", "sleeping"} =>
        \A i \in DOMAIN sessionCitations :
            LET j == getCitationById(citations, sessionCitations[i].id)
            IN  /\ j # 0
                /\ citations[j].key = sessionCitations[i].key

\* -------------------------------------------------------- Negotiation Engine

\* C37: a parsed turn whose action is finalize_outline and whose artifact
\* is empty or missing does not end the negotiation.  It is appended to the
\* conversation, reported to the observer, the persona is switched, and the
\* loop goes on as after any turn (the next turn is begun, taking its own
\* round of the budget, or the final call is made); and no negotiation ends
\* with an empty artifact taken from a turn.
C37_EmptyFinalizeContinues ==
    /\ [](oOutcome = "finalized" => oResult # "")
    /\ [][(/\ Len(turnLog') = Len(turnLog) + 1
           /\ turnLog'[Len(turnLog')].accepted
           /\ turnLog'[Len(turnLog')].action = "finalize_outline"
           /\ turnLog'[Len(turnLog')].artifact = "")
            => /\ oOutcome' # "finalized"
               /\ oPc' \in {"awaiting", "fallback"}
               /\ turnLog'[Len(turnLog')].persona = nextPersona
               /\ nextPersona' = Other(nextPersona)
               /\ Len(currentConversation') = Len(currentConversation) + 1
               /\ currentConversation'[Len(currentConversation')].persona
                     = nextPersona
               /\ hasObserver => /\ Len(observed') = Len(observed) + 1
                                 /\ observed'[Len(observed')].persona
                                       = nextPersona
               /\ IF oPc' = "awaiting"
                  THEN /\ debateTurns' = debateTurns + 1
                       /\ turnCalls' = turnCalls + 1
                  ELSE /\ debateTurns' = debateTurns
                       /\ fallbackCalls' = fallbackCalls + 1]_vars

C37_Witness ==
    /\ Len(turnLog) = 2
    /\ turnLog[1].accepted
    /\ turnLog[1].action = "finalize_outline"
    /\ turnLog[1].artifact = ""
    /\ turnLog[2].persona = "Beta"
    /\ oOutcome = "finalized"
    /\ oResult = "outline1"
    /\ debateTurns = 2
    /\ Len(observed) = 2

\* C38: when the call of a turn throws the aggregate error of the
\* Execution Layer, the negotiation ends with that error: the turn is not
\* logged as skipped, the persona and the budget stay as they are, no turn
\* is issued afterwards and the final call is not made.  A turn is skipped
\* only when a response was returned and failed the checks of its last
\* attempt.
C38_AggregateErrorEndsNegotiation ==
    /\ [](oOutcome = "AllKeysFailedError" => oPc = "done")
    /\ [][/\ oOutcome = "AllKeysFailedError" =>
               /\ turnCalls' = turnCalls
               /\ fallbackCalls' = fallbackCalls
               /\ turnLog' = turnLog
          /\ (oPc = "awaiting" /\ oOutcome' = "AllKeysFailedError") =>
               /\ turnLog' = turnLog
               /\ nextPersona' = nextPersona
               /\ debateTurns' = debateTurns
               /\ turnCalls' = turnCalls
               /\ fallbackCalls' = fallbackCalls
          /\ (/\ Len(turnLog') = Len(turnLog) + 1
              /\ ~turnLog'[Len(turnLog')].accepted) =>
               /\ oPc = "awaiting"
               /\ turnAttempt = maxTurnRetries
               /\ oOutcome' = "none"]_vars

C38_Witness ==
    /\ oPc = "done"
    /\ oOutcome = "AllKeysFailedError"
    /\ maxDebateRounds = 3
    /\ Len(turnLog) = 1
    /\ turnCalls = 2
    /\ fallbackCalls = 0

\* --------------------------------------------------------- Citation Registry

\* The calls that render an in-text mark.
RenderOps == {"generateInTextCitation", "generateMultipleInTextCitations"}

C39_EachIdOnce ==
    (lastCall.op = "generateMultipleInTextCitations" /\ lastCall.ids # <<>>) =>
        LET items == lastCall.items
        IN  /\ UNION { items[i][1]..items[i][2] : i \in DOMAIN items }
                 = Range(lastCall.ids)
            /\ \A i, j \in DOMAIN items :
                  (i # j) =>
                     (items[i][1]..items[i][2]) \cap (items[j][1]..items[j][2])
                        = {}

\* C40: for a non-empty list of distinct positive ids, both parsers read
\* the rendered mark back as the same ids in ascending order:
\* parseCitationString from the text between the brackets, and
\* parseCitationMarks, given the mark, as one citation link with these ids.
C40_RenderParseRoundTrip ==
    (/\ lastCall.op = "generateMultipleInTextCitations"
     /\ lastCall.ids # <<>>
     /\ Cardinality(Range(lastCall.ids)) = Len(lastCall.ids)) =>
        LET m == lastCall.chars
            parsed == parseCitationMarks(m)
        IN  /\ parseCitationString(SubSeq(m, 2, Len(m) - 1))
                  = sortedIds(lastCall.ids)
            /\ parsed.isArray
            /\ SelectSeq(parsed.parts, LAMBDA p : p.link)
                  = << [link |-> TRUE, text |-> <<>>,
                        citationIds |-> sortedIds(lastCall.ids)] >>

\* C31: within one logical request no credential is drawn for more than
\* maxRetriesPerKeyCycle attempts, and a request that used up its attempts
\* has tried every credential of the pool, also while another request draws
\* from the same cursor.
C31_CredentialsRotatePerRequest ==
    /\ \A k \in 1..keys : Occurrences(keysDrawn, k) <= maxRetriesPerKeyCycle
    /\ (outcome = "exhausted") =>
          \A k \in 1..keys : Occurrences(keysDrawn, k) >= 1

====
